---- MODULE Spec2Model ----
(***************************************************************************)
(* Model of the "Meteor Punch Garden" simulation core:                     *)
(*   StateMachine   (src/src/game/core/GameState.ts, lines 58-134)         *)
(*   Game           (src/unnamed/part_004)                                 *)
(*   MeteorSpawner  (src/unnamed/part_001)                                 *)
(*   Meteor, Player, InputManager (src/src/game/input/InputManager.ts)     *)
(*   CollisionSystem (src/src/game/systems/CollisionSystem.ts)             *)
(*   Creature       (src/src/game/entities/Creature.ts)                    *)
(*                                                                         *)
(* Units.  Time is counted in ticks of 50 ms, lengths in millimetres,      *)
(* speeds in mm per tick, accelerations in mm per tick^2.  Every numeric   *)
(* constant of the source is an integer in these units, so the arithmetic  *)
(* of the source is reproduced exactly on the inputs the model draws.      *)
(*                                                                         *)
(* JavaScript runs every callback to completion, so each action below is   *)
(* one whole callback: a frame tick (Game.update), a DOM event listener,   *)
(* a timer callback, or a direct method call on an isolated object.        *)
(* Nested calls are operators from state record to state record.           *)
(***************************************************************************)
EXTENDS Integers, Sequences, FiniteSets, TLC

VARIABLES
    currentState,             \* StateMachine.currentState
    stateHandlers,            \* StateMachine.stateHandlers
    gameTimer,                \* Game.gameTimer (ticks)
    aliveCreatures,           \* Game.aliveCreatures
    isGameRunning,            \* Game.isGameRunning
    creatures,                \* Game.creatures
    meteors,                  \* MeteorSpawner.meteors
    spawnTimer,               \* MeteorSpawner.spawnTimer (ticks)
    gameTime,                 \* MeteorSpawner.gameTime (ticks)
    recentTargets,            \* MeteorSpawner.recentTargets
    debugFrequencyMultiplier, \* MeteorSpawner.debugFrequencyMultiplier (tenths)
    debugMeteorSpeed,         \* MeteorSpawner.debugMeteorSpeed (mm per tick)
    player,                   \* the Player object
    events,                   \* CollisionSystem.events
    keys,                     \* InputManager.keys
    inputState,               \* InputManager.inputState
    bootTimer,                \* the setTimeout registered by the Boot handler
    trace,                    \* history: calls made by the last action, in order
    purged,                   \* history: hazards removed from the active set by the last action
    entered,                  \* history: the session before and after the last action's onEnter of Play
    loopRunning,              \* GameLoop.isRunning
    calls,                    \* history: number of calls made on the isolated Player
    probe,                    \* the arguments and the result of the isolated sphere test
    harness                   \* which object graph is under test: "sm", "entities", "player",
                              \* "spheres", "spawner" or "game"

vars == <<currentState, stateHandlers, gameTimer, aliveCreatures, isGameRunning,
          creatures, meteors, spawnTimer, gameTime, recentTargets,
          debugFrequencyMultiplier, debugMeteorSpeed, player, events, keys,
          inputState, bootTimer, trace, purged, entered, loopRunning, calls, probe,
          harness>>

(***************************************************************************)
(* Bounds of the model (not program constants).                            *)
(***************************************************************************)
\* The history field punches of the player counts up to MaxPunches.
MaxPunches == 2

\* The history field punchAge of the player counts up to MaxPunchAge ticks.
MaxPunchAge == 10

\* One-tick frames are drawn during the first FineWindow ticks of the
\* countdown of a session, one- and two-tick frames during the TailWindow
\* ticks after them, and a session-long frame after that.
FineWindow == 29
TailWindow == 2

\* Key events arrive while the game is in Play only from the last KeyWindow
\* ticks of the fine window on (and only for the jump key).
KeyWindow == 2

(***************************************************************************)
(* GameState enum, GameState.ts lines 1-6.                                 *)
(***************************************************************************)
Boot == "boot"
Title == "title"
Play == "play"
Result == "result"
GameState == {Boot, Title, Play, Result}

(***************************************************************************)
(* The state of the whole object graph as one record, so that nested       *)
(* calls can be written as record-to-record operators.                     *)
(***************************************************************************)
St == [currentState |-> currentState, stateHandlers |-> stateHandlers,
       gameTimer |-> gameTimer, aliveCreatures |-> aliveCreatures,
       isGameRunning |-> isGameRunning, creatures |-> creatures,
       meteors |-> meteors, spawnTimer |-> spawnTimer, gameTime |-> gameTime,
       recentTargets |-> recentTargets,
       debugFrequencyMultiplier |-> debugFrequencyMultiplier,
       debugMeteorSpeed |-> debugMeteorSpeed, player |-> player,
       events |-> events, keys |-> keys, inputState |-> inputState,
       bootTimer |-> bootTimer, loopRunning |-> loopRunning, calls |-> calls,
       trace |-> <<>>, purged |-> <<>>, entered |-> <<>>]

Commit(g) ==
    /\ currentState' = g.currentState
    /\ stateHandlers' = g.stateHandlers
    /\ gameTimer' = g.gameTimer
    /\ aliveCreatures' = g.aliveCreatures
    /\ isGameRunning' = g.isGameRunning
    /\ creatures' = g.creatures
    /\ meteors' = g.meteors
    /\ spawnTimer' = g.spawnTimer
    /\ gameTime' = g.gameTime
    /\ recentTargets' = g.recentTargets
    /\ debugFrequencyMultiplier' = g.debugFrequencyMultiplier
    /\ debugMeteorSpeed' = g.debugMeteorSpeed
    /\ player' = g.player
    /\ events' = g.events
    /\ keys' = g.keys
    /\ inputState' = g.inputState
    /\ bootTimer' = g.bootTimer
    /\ loopRunning' = g.loopRunning
    /\ calls' = g.calls
    /\ trace' = g.trace
    /\ purged' = g.purged
    /\ entered' = g.entered
    /\ UNCHANGED <<probe, harness>>

\* One entry of the call history: the call, its argument, and the phase, the
\* alive-creature count, the countdown and the number of creatures whose
\* alive flag is set at the time of the call.
Call(op, arg, g) ==
    [op |-> op, arg |-> arg, cur |-> g.currentState,
     alive |-> g.aliveCreatures, timer |-> g.gameTimer,
     living |-> Cardinality({i \in DOMAIN g.creatures : g.creatures[i].isAlive})]

\* The session-owned fields, as recorded in the history variable entered.
Session(g) ==
    [gameTimer |-> g.gameTimer, aliveCreatures |-> g.aliveCreatures,
     creatures |-> g.creatures, meteors |-> g.meteors, gameTime |-> g.gameTime,
     spawnTimer |-> g.spawnTimer, recentTargets |-> g.recentTargets]

Log(g, op, arg) == [g EXCEPT !.trace = Append(@, Call(op, arg, g))]

(***************************************************************************)
(* Stage geometry.  Horizontal positions are abstracted to four sites of   *)
(* the stage: site 0 is the origin, where the player stands, and sites     *)
(* 1..3 are the creature spawn slots of Creature.createSpawnPositions.     *)
(* Any two sites are more than 2.8 m apart, farther than every interaction *)
(* radius of the source, so two bodies interact only at the same site.     *)
(***************************************************************************)
Sites == 0..3

\* Creature.createSpawnPositions, Creature.ts lines 196-202: slot i is site i.
createSpawnPositions == <<1, 2, 3>>

\* getTerrainHeight (part_003 lines 5-12) evaluated at the four sites, in mm:
\* (0,0) -> 0.2307, (-2,-2) -> -0.1454, (2,2) -> 0.0239, (-1,3) -> 0.1583.
getTerrainHeight(site) ==
    CASE site = 0 -> 231
      [] site = 1 -> -145
      [] site = 2 -> 24
      [] site = 3 -> 158

\* Horizontal distance between two sites in mm, from the site coordinates.
SiteDistance(a, b) ==
    LET lo == IF a < b THEN a ELSE b
        hi == IF a < b THEN b ELSE a
    IN  CASE lo = hi -> 0
          [] lo = 0 /\ hi = 1 -> 2828
          [] lo = 0 /\ hi = 2 -> 2828
          [] lo = 0 /\ hi = 3 -> 3162
          [] lo = 1 /\ hi = 2 -> 5657
          [] lo = 1 /\ hi = 3 -> 5099
          [] lo = 2 /\ hi = 3 -> 3162

Abs(n) == IF n < 0 THEN -n ELSE n
Max(a, b) == IF a >= b THEN a ELSE b

\* A THREE.Sphere: centre (site, horizontal offset off from the site, height y)
\* and radius r.
Sphere(site, off, y, r) == [site |-> site, off |-> off, y |-> y, r |-> r]
NoSphere == [site |-> -1, off |-> 0, y |-> 0, r |-> 0]

\* The sphere test with a strict comparison.
sphereIntersectsSphereWrongStrict(s1, s2) ==
    LET dh == SiteDistance(s1.site, s2.site) + Abs(s1.off - s2.off)
        dy == Abs(s1.y - s2.y)
        rr == s1.r + s2.r
    IN  IF dy > rr \/ dh > rr THEN FALSE
        ELSE dh * dh + dy * dy < rr * rr

\* sphereIntersectsSphere: distance <= r1 + r2, boundary inclusive.  The test
\* is made on squares; a height difference beyond the radius sum decides it
\* before squaring so that no product leaves the integer range.
sphereIntersectsSphere(s1, s2) ==
    LET dh == SiteDistance(s1.site, s2.site) + Abs(s1.off - s2.off)
        dy == Abs(s1.y - s2.y)
        rr == s1.r + s2.r
    IN  IF dy > rr \/ dh > rr THEN FALSE
        ELSE dh * dh + dy * dy <= rr * rr

(***************************************************************************)
(* Meteor, InputManager.ts lines 806-1032.                                 *)
(***************************************************************************)
Telegraph == "telegraph"
Falling == "falling"
Destroyed == "destroyed"
Exploded == "exploded"
MeteorState == {Telegraph, Falling, Destroyed, Exploded}

telegraphDuration == 20      \* 1.0 s
meteorRadius == 450          \* 0.45 m
explosionRadius == 1600      \* 1.6 m
spawnHeight == 12000         \* 12 m
defaultFallSpeed == 600      \* 12 m/s

\* The fields hist, blasts and evals are history only: the lifecycle states
\* the hazard has been in, in order, the number of times the explosion pass
\* of the CollisionSystem evaluated it, and the number of update calls it
\* received in a terminal state.  No operator of the model reads them.
SetMeteorState(m, s) == [m EXCEPT !.state = s, !.hist = Append(@, s)]

\* constructor, lines 834-841.
NewMeteor(targetPos) ==
    [state |-> Telegraph, timer |-> 0, y |-> spawnHeight, vy |-> 0,
     site |-> targetPos, fallSpeed |-> defaultFallSpeed, hist |-> <<Telegraph>>,
     blasts |-> 0, evals |-> 0]

\* setFallSpeed, lines 1025-1027.
setFallSpeed(m, speed) == [m EXCEPT !.fallSpeed = speed]

\* updateTelegraph without the transition to Falling.
updateTelegraphWrongStays(m) == m

\* updateTelegraph, lines 913-932.  The hazard hangs straight above its
\* footprint, so the normalised direction to the target is (0,-1,0).
updateTelegraph(m) ==
    IF m.timer >= telegraphDuration
    THEN [SetMeteorState(m, Falling) EXCEPT !.vy = -m.fallSpeed]
    ELSE m

\* explode, lines 953-957.
explode(m) == SetMeteorState(m, Exploded)

\* destroy, lines 959-963.
destroy(m) == SetMeteorState(m, Destroyed)

\* updateFalling, lines 934-947.
updateFalling(m, deltaTime) ==
    LET moved == [m EXCEPT !.y = @ + m.vy * deltaTime]
    IN  IF moved.y <= getTerrainHeight(moved.site) + meteorRadius
        THEN explode(moved)
        ELSE moved

\* update, lines 893-911: the hazard after the call and the returned flag.
MeteorUpdate(m, deltaTime) ==
    LET t == [m EXCEPT !.timer = @ + deltaTime]
    IN  CASE t.state = Telegraph -> [m |-> updateTelegraph(t), keep |-> TRUE]
          [] t.state = Falling -> [m |-> updateFalling(t, deltaTime), keep |-> TRUE]
          [] t.state = Destroyed -> [m |-> [t EXCEPT !.evals = @ + 1], keep |-> FALSE]
          [] t.state = Exploded -> [m |-> [t EXCEPT !.evals = @ + 1], keep |-> FALSE]

\* getBoundingSphere, lines 977-979.
MeteorBoundingSphere(m) == Sphere(m.site, 0, m.y, meteorRadius)

\* getExplosionSphere, lines 981-983 (the target position lies at height 0).
getExplosionSphere(m) == Sphere(m.site, 0, 0, explosionRadius)

\* isExploded, lines 997-999.
isExploded(m) == m.state = Exploded

\* canBeDestroyed, lines 1001-1003.
canBeDestroyedWrongAgain(m) == m.state \in {Falling, Destroyed}

canBeDestroyed(m) == m.state = Falling

(***************************************************************************)
(* Creature, Creature.ts.                                                  *)
(***************************************************************************)
creatureRadius == 350        \* 0.35 m
creatureSpawnY == 350        \* spawn positions have y = 0.35

\* constructor, lines 21-26.  The history field hits counts the
\* meteor_hit_creature events pushed about the creature.
NewCreature(spawnPosition) ==
    [isAlive |-> TRUE, site |-> spawnPosition, y |-> creatureSpawnY, hits |-> 0]

\* update, lines 53-61.  The walk toward the current waypoint is abstracted:
\* a living creature ends the update at the site `waypoint' when time has
\* passed (deltaTime > 0) and stays where it is otherwise; updatePosition
\* (lines 157-167) always puts it at height radius / 2.
CreatureUpdateWrongRevive(c, deltaTime, waypoint) ==
    [c EXCEPT !.isAlive = TRUE,
              !.site = IF deltaTime > 0 THEN waypoint ELSE @,
              !.y = creatureRadius \div 2]

CreatureUpdate(c, deltaTime, waypoint) ==
    IF ~c.isAlive THEN c
    ELSE [c EXCEPT !.site = IF deltaTime > 0 THEN waypoint ELSE @,
                   !.y = creatureRadius \div 2]

\* takeDamage leaving the creature alive.
takeDamageWrongSurvives(c) == c

\* takeDamage, lines 169-173.
takeDamage(c) == [c EXCEPT !.isAlive = FALSE]

\* isCreatureAlive, lines 187-189.
isCreatureAlive(c) == c.isAlive

\* getBoundingSphere, lines 183-185.
CreatureBoundingSphere(c) == Sphere(c.site, 0, c.y, creatureRadius)

(***************************************************************************)
(* InputManager, InputManager.ts lines 11-147.  Only the jump and punch    *)
(* keys are modelled; the movement keys are never pressed, so the movement *)
(* intent the InputManager reports is always (0, 0).                       *)
(***************************************************************************)
InputKeys == {"Space", "KeyJ"}

\* movement is <<x, z>>.  The field held is history only: the keys that were
\* down when update last ran.
InitInputState ==
    [movement |-> <<0, 0>>,
     jump |-> FALSE, punch |-> FALSE, jumpPressed |-> FALSE, punchPressed |-> FALSE,
     held |-> {}]

\* The mousedown and mouseup listeners for the left button, lines 62-74.
MouseDown(g) == [g EXCEPT !.inputState.punch = TRUE]

MouseUp(g) == [g EXCEPT !.inputState.punch = FALSE]

\* InputManager.update, lines 92-115.
InputManagerUpdate(g) ==
    LET prevJump == g.inputState.jump
        prevPunch == g.inputState.punch
        jump == "Space" \in g.keys
        punch == "KeyJ" \in g.keys
    IN  [g EXCEPT !.inputState =
            [movement |-> <<0, 0>>,
             jump |-> jump, punch |-> punch,
             jumpPressed |-> jump /\ ~prevJump,
             punchPressed |-> punch /\ ~prevPunch,
             held |-> g.keys]]

(***************************************************************************)
(* Player, InputManager.ts lines 259-542.  The position is (x, y, z) and   *)
(* the velocity (vx, vy, vz).  The terrain under the player is taken at    *)
(* the site it belongs to (site 0, the middle of the stage).  update is    *)
(* called without a camera direction, so the movement intent is used as    *)
(* world movement (lines 347-360 are skipped).                             *)
(***************************************************************************)
moveSpeed == 200             \* 4.0 m/s
airMoveSpeed == 120          \* moveSpeed * airControlFactor = 4.0 * 0.6 m/s
frictionPerTick == 891       \* Math.pow(0.1, 0.05) = 0.891, in thousandths
stageLimit == 4500           \* 5 - margin, margin = 0.5
jumpSpeed == 425             \* 8.5 m/s
gravity == -45               \* -18 m/s^2
punchDuration == 5           \* 0.25 s
punchRadius == 600           \* 0.6 m
punchOffset == 700           \* 0.7 m
knockbackDuration == 8       \* 0.4 s
playerRadius == 500          \* getBoundingSphere radius 0.5
playerHeightOffset == 600    \* groundLevel = terrainHeight + 0.6
playerStartY == 1000         \* position.set(0, 1, 0)
fallOffY == -10000           \* position.y < -10
knockbackMinUp == 150        \* Math.max(velocity.y, 3)
explosionKnockback == 400    \* applyKnockback(direction, 8)
directHitKnockback == 500    \* applyKnockback(direction, 10)

Sign(n) == IF n > 0 THEN 1 ELSE IF n < 0 THEN -1 ELSE 0

\* Vector3.length of an integer vector, rounded down.
Length(d) ==
    IF d[1] = 0 /\ d[3] = 0 THEN Abs(d[2])
    ELSE LET n == d[1] * d[1] + d[2] * d[2] + d[3] * d[3]
         IN  CHOOSE r \in 0..n : r * r <= n /\ (r + 1) * (r + 1) > n

\* One component of normalize().multiplyScalar(force): c / length * force,
\* rounded toward zero.  normalize() leaves the zero vector zero.
Scaled(c, len, force) ==
    IF len = 0 THEN 0 ELSE Sign(c) * ((Abs(c) * force) \div len)

\* v * Math.pow(0.1, deltaTime), one tick at a time, rounded toward zero.
RECURSIVE Friction(_, _)
Friction(v, deltaTime) ==
    IF deltaTime = 0 \/ v = 0 THEN v
    ELSE Friction(Sign(v) * ((Abs(v) * frictionPerTick) \div 1000), deltaTime - 1)

\* Math.max(-5 + margin, Math.min(5 - margin, c)), lines 382-385.
Clamp(c) == IF c > stageLimit THEN stageLimit ELSE IF c < -stageLimit THEN -stageLimit ELSE c

\* constructor, lines 283-287, and the field initialisers, lines 262-268.
\* punches is a history field: the number of times the punch became active
\* since the player last left the ground, counted up to MaxPunches.
\* punchAge is a history field: the delta-time of the updates since the
\* punch became active, the activating update included, counted up to
\* MaxPunchAge.
NewPlayer ==
    [site |-> 0, x |-> 0, z |-> 0, vx |-> 0, vz |-> 0,
     y |-> playerStartY, vy |-> 0, isGrounded |-> FALSE,
     punchActive |-> FALSE, punchTimer |-> 0, knockbackTimer |-> 0,
     isKnockedBack |-> FALSE, punchY |-> 0, punchSite |-> 0, punches |-> 0,
     punchAge |-> 0]

\* history: deltaTime more has passed since the punch became active.
AgePunch(p, deltaTime) ==
    [p EXCEPT !.punchAge = IF @ + deltaTime < MaxPunchAge THEN @ + deltaTime
                           ELSE MaxPunchAge]

\* updateMovement, lines 339-386.  The movement intent is an axis vector,
\* so normalize() leaves it as it is.
updateMovement(p, deltaTime, input) ==
    LET m == input.movement
        currentMoveSpeed == IF p.isGrounded THEN moveSpeed ELSE airMoveSpeed
        q == IF m # <<0, 0>>
             THEN [p EXCEPT !.vx = (m[1] * currentMoveSpeed * deltaTime) \div deltaTime,
                            !.vz = (m[2] * currentMoveSpeed * deltaTime) \div deltaTime]
             ELSE IF p.isGrounded
                  THEN [p EXCEPT !.vx = Friction(@, deltaTime), !.vz = Friction(@, deltaTime)]
                  ELSE p
    IN  [q EXCEPT !.x = Clamp(@ + q.vx * deltaTime), !.z = Clamp(@ + q.vz * deltaTime)]

\* updateJump without the grounded test of line 389.
updateJumpWrongAirJump(p, input) ==
    IF input.jumpPressed
    THEN [p EXCEPT !.vy = jumpSpeed, !.isGrounded = FALSE, !.punches = 0]
    ELSE p

\* updateJump, lines 388-393.
updateJump(p, input) ==
    IF input.jumpPressed /\ p.isGrounded
    THEN [p EXCEPT !.vy = jumpSpeed, !.isGrounded = FALSE, !.punches = 0]
    ELSE p

\* updatePunch, lines 395-450.  The punch sphere is placed punchOffset ahead
\* of the player's position at the time of the call.
updatePunch(p, deltaTime) ==
    LET a == IF ~p.isGrounded /\ ~p.punchActive
             THEN [p EXCEPT !.punchActive = TRUE, !.punchTimer = punchDuration,
                            !.punchY = p.y, !.punchSite = p.site,
                            !.punches = IF @ < MaxPunches THEN @ + 1 ELSE @,
                            !.punchAge = 0]
             ELSE p
    IN  IF a.punchActive
        THEN LET b == AgePunch([a EXCEPT !.punchTimer = @ - deltaTime], deltaTime)
             IN  IF b.punchTimer <= 0 \/ b.isGrounded
                 THEN [b EXCEPT !.punchActive = FALSE]
                 ELSE [b EXCEPT !.punchY = b.y, !.punchSite = b.site]
        ELSE a

\* respawn, lines 496-501.
respawn(p) ==
    [p EXCEPT !.site = 0, !.x = 0, !.z = 0, !.vx = 0, !.vz = 0,
              !.y = playerStartY, !.vy = 0, !.isGrounded = FALSE]

\* updatePhysics, lines 452-463: gravity, then position.add(velocity * dt)
\* on all three components.
updatePhysics(p, deltaTime) ==
    LET v == p.vy + gravity * deltaTime
        q == [p EXCEPT !.vy = v, !.y = @ + v * deltaTime,
                       !.x = @ + p.vx * deltaTime, !.z = @ + p.vz * deltaTime]
    IN  IF q.y < fallOffY THEN respawn(q) ELSE q

\* updateGroundCheck, lines 465-483.
updateGroundCheck(p) ==
    LET groundLevel == getTerrainHeight(p.site) + playerHeightOffset
    IN  IF p.isGrounded
        THEN [p EXCEPT !.y = groundLevel, !.vy = 0]
        ELSE IF p.y <= groundLevel /\ p.vy <= 0
             THEN [p EXCEPT !.y = groundLevel, !.vy = 0, !.isGrounded = TRUE]
             ELSE p

\* updateKnockback, lines 485-494.
updateKnockback(p, deltaTime) ==
    LET t == [p EXCEPT !.knockbackTimer = @ - deltaTime]
        u == IF t.knockbackTimer <= 0 THEN [t EXCEPT !.isKnockedBack = FALSE] ELSE t
        h == IF u.punchActive THEN AgePunch(u, deltaTime) ELSE u
    IN  updateGroundCheck(updatePhysics(h, deltaTime))

\* The normal branch of update, lines 330-336.
updateNormal(p, deltaTime, input) ==
    updateGroundCheck(updatePhysics(updatePunch(updateJump(
        updateMovement(p, deltaTime, input), input), deltaTime), deltaTime))

\* update with the knockback branch also reading the movement intent.
PlayerUpdateWrongSteers(p, deltaTime, input) ==
    IF p.isKnockedBack
    THEN updateKnockback(updateMovement(p, deltaTime, input), deltaTime)
    ELSE updateNormal(p, deltaTime, input)

\* update, lines 324-337.
PlayerUpdate(p, deltaTime, input) ==
    IF p.isKnockedBack
    THEN updateKnockback(p, deltaTime)
    ELSE updateNormal(p, deltaTime, input)

\* applyKnockback without the lift of line 505.
applyKnockbackWrongNoLift(p, direction, force) ==
    LET len == Length(direction)
    IN  [p EXCEPT !.vx = Scaled(direction[1], len, force),
                  !.vy = Scaled(direction[2], len, force),
                  !.vz = Scaled(direction[3], len, force),
                  !.isKnockedBack = TRUE,
                  !.knockbackTimer = knockbackDuration,
                  !.punches = IF p.isGrounded THEN 0 ELSE @,
                  !.isGrounded = FALSE]

\* applyKnockback, lines 503-509; direction is <<x, y, z>>.
applyKnockback(p, direction, force) ==
    LET len == Length(direction)
    IN  [p EXCEPT !.vx = Scaled(direction[1], len, force),
                  !.vy = Max(Scaled(direction[2], len, force), knockbackMinUp),
                  !.vz = Scaled(direction[3], len, force),
                  !.isKnockedBack = TRUE,
                  !.knockbackTimer = knockbackDuration,
                  !.punches = IF p.isGrounded THEN 0 ELSE @,
                  !.isGrounded = FALSE]

\* getPunchSphere, lines 511-513.
getPunchSphere(p) ==
    IF p.punchActive THEN Sphere(p.punchSite, punchOffset, p.punchY, punchRadius)
    ELSE NoSphere

\* getBoundingSphere, lines 523-525.
PlayerBoundingSphere(p) == Sphere(p.site, 0, p.y, playerRadius)

(***************************************************************************)
(* MeteorSpawner, part_001.                                                *)
(***************************************************************************)
maxRecentTargets == 2
maxSimultaneousMeteors == 8
maxAttempts == 10

\* difficultyPhases, lines 18-22 (times in ticks).
difficultyPhases ==
    <<[startTime |-> 0, endTime |-> 400, spawnInterval |-> 24],
      [startTime |-> 400, endTime |-> 800, spawnInterval |-> 18],
      [startTime |-> 800, endTime |-> 1200, spawnInterval |-> 14]>>

NoPhase == [startTime |-> -1, endTime |-> -1, spawnInterval |-> -1]

\* getCurrentDifficultyPhase returning the last phase instead of null.
getCurrentDifficultyPhaseWrongLast(g) ==
    LET hits == {i \in DOMAIN difficultyPhases :
                    /\ g.gameTime >= difficultyPhases[i].startTime
                    /\ g.gameTime < difficultyPhases[i].endTime}
    IN  IF hits = {} THEN difficultyPhases[Len(difficultyPhases)]
        ELSE difficultyPhases[CHOOSE i \in hits : \A j \in hits : i <= j]

\* getCurrentDifficultyPhase, lines 59-66.
getCurrentDifficultyPhase(g) ==
    LET hits == {i \in DOMAIN difficultyPhases :
                    /\ g.gameTime >= difficultyPhases[i].startTime
                    /\ g.gameTime < difficultyPhases[i].endTime}
    IN  IF hits = {} THEN NoPhase
        ELSE difficultyPhases[CHOOSE i \in hits : \A j \in hits : i <= j]

\* Meteor.isValidTarget, InputManager.ts lines 1015-1022, with minDistance 2.0.
minTargetDistance == 2000
isValidTarget(newTarget, recent) ==
    \A k \in DOMAIN recent : ~(SiteDistance(newTarget, recent[k]) < minTargetDistance)

\* generateValidTarget, lines 96-110.  rnd.attempts are the values
\* Meteor.generateRandomTarget returns inside the loop and rnd.fallback the
\* one it returns after the loop.
generateValidTarget(g, rnd) ==
    LET ok == {a \in 1..maxAttempts : isValidTarget(rnd.attempts[a], g.recentTargets)}
    IN  IF ok # {} THEN rnd.attempts[CHOOSE a \in ok : \A b \in ok : a <= b]
        ELSE rnd.fallback

\* addRecentTarget dropping the newest target instead of the oldest.
addRecentTargetWrongDropsNewest(g, target) ==
    LET pushed == Append(g.recentTargets, target)
    IN  [g EXCEPT !.recentTargets =
            IF Len(pushed) > maxRecentTargets THEN SubSeq(pushed, 1, maxRecentTargets)
            ELSE pushed]

\* addRecentTarget, lines 112-118.
addRecentTarget(g, target) ==
    LET pushed == Append(g.recentTargets, target)
    IN  [g EXCEPT !.recentTargets =
            IF Len(pushed) > maxRecentTargets THEN Tail(pushed) ELSE pushed]

\* trySpawnMeteor, lines 68-94.
trySpawnMeteorWrongNoCap(g, rnd) ==
    LET target == generateValidTarget(g, rnd)
        meteor == setFallSpeed(NewMeteor(target), g.debugMeteorSpeed)
    IN  addRecentTarget([Log(g, "trySpawnMeteor", "spawned")
                            EXCEPT !.meteors = Append(@, meteor)], target)

trySpawnMeteor(g, rnd) ==
    IF Len(g.meteors) >= maxSimultaneousMeteors THEN Log(g, "trySpawnMeteor", "full")
    ELSE LET target == generateValidTarget(g, rnd)
             meteor == setFallSpeed(NewMeteor(target), g.debugMeteorSpeed)
         IN  addRecentTarget([Log(g, "trySpawnMeteor", "spawned")
                                 EXCEPT !.meteors = Append(@, meteor)], target)

\* updateMeteors, lines 120-122.
updateMeteors(g, deltaTime) ==
    [g EXCEPT !.meteors =
        [i \in DOMAIN g.meteors |-> MeteorUpdate(g.meteors[i], deltaTime).m]]

\* cleanupMeteors, lines 124-136: update(0) is called on every hazard and
\* those for which it returns false are dropped.  The dropped ones are
\* appended to the history variable purged.
cleanupMeteors(g) ==
    LET checked == [i \in DOMAIN g.meteors |-> MeteorUpdate(g.meteors[i], 0)]
        kept == SelectSeq(checked, LAMBDA r : r.keep)
        gone == SelectSeq(checked, LAMBDA r : ~r.keep)
    IN  [g EXCEPT !.meteors = [i \in DOMAIN kept |-> kept[i].m],
                  !.purged = @ \o [i \in DOMAIN gone |->
                                      [m |-> gone[i].m, punched |-> FALSE]]]

\* update resetting the spawn timer only when a hazard was added.
SpawnerUpdateWrongRetry(g, deltaTime, rnd) ==
    LET g1 == [g EXCEPT !.gameTime = @ + deltaTime, !.spawnTimer = @ + deltaTime]
        currentPhase == getCurrentDifficultyPhase(g1)
        g2 == IF currentPhase # NoPhase
                 /\ g1.spawnTimer * 10 >= currentPhase.spawnInterval * g1.debugFrequencyMultiplier
              THEN IF Len(g1.meteors) >= maxSimultaneousMeteors
                   THEN trySpawnMeteor(g1, rnd)
                   ELSE [trySpawnMeteor(g1, rnd) EXCEPT !.spawnTimer = 0]
              ELSE g1
    IN  cleanupMeteors(updateMeteors(Log(g2, "spawner.update", "" ), deltaTime))

\* update, lines 38-57.  debugFrequencyMultiplier is held in tenths, so the
\* comparison spawnTimer >= spawnInterval * multiplier is made on tenfold
\* values.
SpawnerUpdate(g, deltaTime, rnd) ==
    LET g1 == [g EXCEPT !.gameTime = @ + deltaTime, !.spawnTimer = @ + deltaTime]
        currentPhase == getCurrentDifficultyPhase(g1)
        g2 == IF currentPhase # NoPhase
                 /\ g1.spawnTimer * 10 >= currentPhase.spawnInterval * g1.debugFrequencyMultiplier
              THEN [trySpawnMeteor(g1, rnd) EXCEPT !.spawnTimer = 0]
              ELSE g1
    IN  cleanupMeteors(updateMeteors(Log(g2, "spawner.update", "" ), deltaTime))

\* getTelegraphPositions, lines 142-146.
getTelegraphPositions(g) ==
    {g.meteors[i].site : i \in {k \in DOMAIN g.meteors : g.meteors[k].state = Telegraph}}

\* reset, lines 162-175.
SpawnerReset(g) ==
    [g EXCEPT !.meteors = <<>>, !.spawnTimer = 0, !.gameTime = 0, !.recentTargets = <<>>]

\* setFrequencyMultiplier, lines 202-204.
setFrequencyMultiplier(g, multiplier) == [g EXCEPT !.debugFrequencyMultiplier = multiplier]

\* setMeteorSpeed, lines 210-214.
setMeteorSpeed(g, speed) ==
    [g EXCEPT !.debugMeteorSpeed = speed,
              !.meteors = [i \in DOMAIN g.meteors |-> setFallSpeed(g.meteors[i], speed)]]

(***************************************************************************)
(* CollisionSystem, CollisionSystem.ts.                                    *)
(***************************************************************************)
Event(type, mi, ci, directHit) ==
    [type |-> type, mi |-> mi, ci |-> ci, directHit |-> directHit]

\* checkPunchVsMeteors, lines 27-48.  A hit changes only the hazard it is
\* about, so the loop is a map over the hazards in order.
checkPunchVsMeteors(g) ==
    LET punchSphere == getPunchSphere(g.player)
        hit(i) == /\ canBeDestroyed(g.meteors[i])
                  /\ sphereIntersectsSphere(punchSphere, MeteorBoundingSphere(g.meteors[i]))
        idx == [i \in DOMAIN g.meteors |-> i]
        hits == SelectSeq(idx, hit)
    IN  IF punchSphere = NoSphere THEN g
        ELSE [g EXCEPT
                !.meteors = [i \in DOMAIN g.meteors |->
                                IF hit(i) THEN destroy(g.meteors[i]) ELSE g.meteors[i]],
                !.events = @ \o [k \in DOMAIN hits |->
                                    Event("punch_hit_meteor", hits[k], 0, FALSE)]]

\* The creature loop without the isCreatureAlive test of lines 58 and 115.
HitCreaturesWrongHitsDead(g, sphere, mi, directHit) ==
    LET hit(j) == sphereIntersectsSphere(sphere, CreatureBoundingSphere(g.creatures[j]))
        idx == [j \in DOMAIN g.creatures |-> j]
        hits == SelectSeq(idx, hit)
    IN  [g EXCEPT
            !.creatures = [j \in DOMAIN g.creatures |->
                              IF hit(j) THEN [takeDamage(g.creatures[j]) EXCEPT !.hits = @ + 1]
                              ELSE g.creatures[j]],
            !.events = @ \o [k \in DOMAIN hits |->
                                Event("meteor_hit_creature", mi, hits[k], directHit)]]

\* The creature loop of lines 56-73 and 113-131 for one hazard sphere: every
\* living creature the sphere overlaps takes damage and yields one event.
HitCreatures(g, sphere, mi, directHit) ==
    LET hit(j) == /\ isCreatureAlive(g.creatures[j])
                  /\ sphereIntersectsSphere(sphere, CreatureBoundingSphere(g.creatures[j]))
        idx == [j \in DOMAIN g.creatures |-> j]
        hits == SelectSeq(idx, hit)
    IN  [g EXCEPT
            !.creatures = [j \in DOMAIN g.creatures |->
                              IF hit(j) THEN [takeDamage(g.creatures[j]) EXCEPT !.hits = @ + 1]
                              ELSE g.creatures[j]],
            !.events = @ \o [k \in DOMAIN hits |->
                                Event("meteor_hit_creature", mi, hits[k], directHit)]]

\* The player check of lines 75-93 and 133-152; from is the height of the
\* point the knockback points away from.  The hazard and the player are at
\* the middle of the same site, so the direction between them is vertical.
HitPlayer(g, sphere, mi, from, force, directHit) ==
    IF sphereIntersectsSphere(sphere, PlayerBoundingSphere(g.player))
    THEN [g EXCEPT
            !.player = applyKnockback(@, <<0, g.player.y - from, 0>>, force),
            !.events = Append(@, Event("meteor_hit_player", mi, 0, directHit))]
    ELSE g

\* checkMeteorExplosions, lines 50-105, from hazard i on.
RECURSIVE checkMeteorExplosionsFrom(_, _)
checkMeteorExplosionsFrom(g, i) ==
    IF i > Len(g.meteors) THEN g
    ELSE IF ~isExploded(g.meteors[i]) THEN checkMeteorExplosionsFrom(g, i + 1)
    ELSE LET sphere == getExplosionSphere(g.meteors[i])
             g1 == HitCreatures(g, sphere, i, FALSE)
             g2 == HitPlayer(g1, sphere, i, 0, explosionKnockback, FALSE)
             g3 == [g2 EXCEPT !.events = Append(@, Event("meteor_explosion", i, 0, FALSE)),
                              !.meteors[i].blasts = @ + 1]
         IN  checkMeteorExplosionsFrom(g3, i + 1)

checkMeteorExplosions(g) == checkMeteorExplosionsFrom(g, 1)

\* checkDirectMeteorHits without the state test of line 109.
RECURSIVE checkDirectMeteorHitsFromWrongAnyState(_, _)
checkDirectMeteorHitsFromWrongAnyState(g, i) ==
    IF i > Len(g.meteors) THEN g
    ELSE LET sphere == MeteorBoundingSphere(g.meteors[i])
             g1 == HitCreatures(g, sphere, i, TRUE)
             g2 == HitPlayer(g1, sphere, i, g.meteors[i].y, directHitKnockback, TRUE)
         IN  checkDirectMeteorHitsFromWrongAnyState(g2, i + 1)

\* checkDirectMeteorHits, lines 107-154, from hazard i on.
RECURSIVE checkDirectMeteorHitsFrom(_, _)
checkDirectMeteorHitsFrom(g, i) ==
    IF i > Len(g.meteors) THEN g
    ELSE IF g.meteors[i].state # Falling THEN checkDirectMeteorHitsFrom(g, i + 1)
    ELSE LET sphere == MeteorBoundingSphere(g.meteors[i])
             g1 == HitCreatures(g, sphere, i, TRUE)
             g2 == HitPlayer(g1, sphere, i, g.meteors[i].y, directHitKnockback, TRUE)
         IN  checkDirectMeteorHitsFrom(g2, i + 1)

checkDirectMeteorHits(g) == checkDirectMeteorHitsFrom(g, 1)

\* update, lines 14-25.
CollisionSystemUpdate(g) ==
    checkDirectMeteorHits(checkMeteorExplosions(checkPunchVsMeteors(
        Log([g EXCEPT !.events = <<>>], "collision.update", ""))))

(***************************************************************************)
(* StateMachine, GameState.ts lines 58-134, and the four phase handlers    *)
(* Game.setupStateMachine registers, part_004 lines 77-137.                *)
(*                                                                         *)
(* A callback slot of a handler holds "none" (absent), "probe" (a callback *)
(* that only records that it ran) or "game" (the closure of Game for that  *)
(* phase).                                                                 *)
(***************************************************************************)
gameTimerStart == 1200       \* 60 s
creatureCount == 3

NoHandler == [onEnter |-> "none", onExit |-> "none", update |-> "none"]

\* Game.startGame, part_004 lines 285-306.
startGameWrongKeepsCreatures(g) ==
    SpawnerReset([g EXCEPT !.isGameRunning = TRUE,
                           !.gameTimer = gameTimerStart,
                           !.aliveCreatures = creatureCount])

startGame(g) ==
    LET g1 == [g EXCEPT !.isGameRunning = TRUE,
                        !.gameTimer = gameTimerStart,
                        !.aliveCreatures = creatureCount]
        g2 == SpawnerReset(g1)
    IN  [g2 EXCEPT !.creatures =
            [i \in DOMAIN createSpawnPositions |-> NewCreature(createSpawnPositions[i])]]

\* The onEnter closures with a Result screen that reports a win whenever the
\* countdown has run out.
GameOnEnterWrongTimerWins(g, state) ==
    CASE state = Boot -> [g EXCEPT !.bootTimer = TRUE]
      [] state = Title -> g
      [] state = Play -> startGame(g)
      [] state = Result ->
            Log(g, "showResultUI",
                IF g.aliveCreatures > 0 \/ g.gameTimer <= 0 THEN "won" ELSE "lost")

\* The onEnter closures, part_004 lines 82-88, 93-96, 108-112, 124-127.
GameOnEnter(g, state) ==
    CASE state = Boot -> [g EXCEPT !.bootTimer = TRUE]
      [] state = Title -> g
      [] state = Play -> startGame(g)
      [] state = Result ->
            Log(g, "showResultUI", IF g.aliveCreatures > 0 THEN "won" ELSE "lost")

\* An onExit closure of Play that leaves the running flag set.
GameOnExitWrongKeepsRunning(g, state) == g

\* The onExit closure of Play, part_004 lines 116-119.
GameOnExit(g, state) ==
    IF state = Play THEN [g EXCEPT !.isGameRunning = FALSE] ELSE g

\* oldHandler.onExit() / newHandler.onEnter() of transitionTo: the callback
\* stored in the slot runs, after the call is recorded.
RunOnExit(g, state) ==
    LET slot == g.stateHandlers[state].onExit
    IN  CASE slot = "none" -> g
          [] slot = "probe" -> Log(g, "onExit", state)
          [] slot = "game" -> GameOnExit(Log(g, "onExit", state), state)

\* history: the session before and after the onEnter of Play, and the player
\* after it.
RecordEntered(state, before, after) ==
    IF state = Play
    THEN [after EXCEPT !.entered = <<[before |-> Session(before), after |-> Session(after),
                                      player |-> after.player]>>]
    ELSE after

RunOnEnter(g, state) ==
    LET slot == g.stateHandlers[state].onEnter
    IN  RecordEntered(state, g,
            CASE slot = "none" -> g
              [] slot = "probe" -> Log(g, "onEnter", state)
              [] slot = "game" -> GameOnEnter(Log(g, "onEnter", state), state))

\* canTransitionTo, lines 103-112.
validTransitionsWrongSelf(from) ==
    CASE from = Boot -> {Title, Boot}
      [] from = Title -> {Play, Title}
      [] from = Play -> {Result, Play}
      [] from = Result -> {Play, Title, Result}

validTransitions(from) ==
    CASE from = Boot -> {Title}
      [] from = Title -> {Play}
      [] from = Play -> {Result}
      [] from = Result -> {Play, Title}

canTransitionTo(g, newState) == newState \in validTransitions(g.currentState)

\* transitionTo, lines 84-101.
\* lines 90-93: the handler of the current phase is looked up and its onExit
\* called; line 95: the assignment; lines 97-100: the handler of the phase
\* that is now current is looked up and its onEnter called.
ExitCurrent(g) == RunOnExit(g, g.currentState)

\* The assignment of line 95 going back to Boot when Result is left for Title.
SetCurrentStateWrongBoot(g, newState) ==
    [g EXCEPT !.currentState = IF g.currentState = Result /\ newState = Title
                               THEN Boot ELSE newState]

SetCurrentState(g, newState) == [g EXCEPT !.currentState = newState]
EnterCurrent(g) == RunOnEnter(g, g.currentState)

transitionToWrongSwapFirst(g, newState) ==
    LET req == Log(g, "transitionTo", newState)
    IN  IF ~canTransitionTo(req, newState) THEN Log(req, "warn", newState)
        ELSE EnterCurrent(RunOnExit(SetCurrentState(req, newState), g.currentState))

transitionTo(g, newState) ==
    LET req == Log(g, "transitionTo", newState)
    IN  IF ~canTransitionTo(req, newState) THEN Log(req, "warn", newState)
        ELSE EnterCurrent(SetCurrentState(ExitCurrent(req), newState))

\* addStateHandler, lines 76-78.
addStateHandler(g, state, handler) == [g EXCEPT !.stateHandlers[state] = handler]

\* Game.setupStateMachine, part_004 lines 77-137: the handlers it registers.
GameHandlers ==
    [s \in GameState |->
        CASE s = Boot -> [onEnter |-> "game", onExit |-> "none", update |-> "none"]
          [] s = Title -> [onEnter |-> "game", onExit |-> "none", update |-> "game"]
          [] s = Play -> [onEnter |-> "game", onExit |-> "game", update |-> "game"]
          [] s = Result -> [onEnter |-> "game", onExit |-> "none", update |-> "game"]]

(***************************************************************************)
(* Game, part_004.                                                         *)
(***************************************************************************)
\* handleCollisionEvent without the recount of line 252.
handleCollisionEventWrongNoRecount(g, event) == Log(g, "handleCollisionEvent", event.type)

\* handleCollisionEvent, lines 249-269.
handleCollisionEvent(g, event) ==
    LET logged == Log(g, "handleCollisionEvent", event.type)
    IN  IF event.type = "meteor_hit_creature"
        THEN [logged EXCEPT !.aliveCreatures =
                Cardinality({i \in DOMAIN logged.creatures : isCreatureAlive(logged.creatures[i])})]
        ELSE logged

RECURSIVE HandleEventsFrom(_, _, _)
HandleEventsFrom(g, evs, k) ==
    IF k > Len(evs) THEN g
    ELSE HandleEventsFrom(handleCollisionEvent(g, evs[k]), evs, k + 1)

\* updateGameEntities, lines 202-242.  rnd holds the random draws of the
\* call: the footprints the spawner draws and, for the creatures, which one
\* reach a new site (rnd.movers) and which site (rnd.waypoint).
\* line 204: this.player.update(deltaTime, inputState, cameraDirection).
UpdatePlayer(g, deltaTime) ==
    Log([g EXCEPT !.player = PlayerUpdate(@, deltaTime, g.inputState)], "player.update", "")

\* lines 207-208: every creature is updated.
UpdateCreatures(g, deltaTime, rnd) ==
    Log([g EXCEPT !.creatures =
            [i \in DOMAIN g.creatures |->
                CreatureUpdate(g.creatures[i], deltaTime,
                    IF i \in rnd.movers THEN rnd.waypoint ELSE g.creatures[i].site)]],
        "creatures.update", "")

\* history: did the hazards purged after the first `before' entries overlap
\* the active punch sphere.
MarkPunched(before, g) ==
    [g EXCEPT !.purged =
        [k \in DOMAIN g.purged |->
            IF k <= before THEN g.purged[k]
            ELSE [g.purged[k] EXCEPT !.punched =
                    /\ getPunchSphere(g.player) # NoSphere
                    /\ sphereIntersectsSphere(getPunchSphere(g.player),
                           MeteorBoundingSphere(g.purged[k].m))]]]

\* line 211: this.meteorSpawner.update(deltaTime).
UpdateSpawner(g, deltaTime, rnd) ==
    MarkPunched(Len(g.purged), SpawnerUpdate(g, deltaTime, rnd))

\* lines 238-241 without the clearEvents call.
HandleEventsWrongKeeps(g) == HandleEventsFrom(Log(g, "getEvents", g.events), g.events, 1)

\* lines 238-241: the events are handled in order and cleared.  The list
\* getEvents returns is recorded.
HandleEvents(g) ==
    [HandleEventsFrom(Log(g, "getEvents", g.events), g.events, 1) EXCEPT !.events = <<>>]

updateGameEntities(g, deltaTime, rnd) ==
    HandleEvents(CollisionSystemUpdate(
        UpdateSpawner(UpdateCreatures(UpdatePlayer(g, deltaTime), deltaTime, rnd),
                      deltaTime, rnd)))

\* checkGameConditions, lines 271-283.
checkGameConditionsWrongTimerOnly(g) ==
    LET seen == Log(g, "checkGameConditions",
                    IF g.gameTimer <= 0 THEN "timeout" ELSE "continue")
    IN  IF seen.gameTimer <= 0 THEN transitionTo(seen, Result) ELSE seen

checkGameConditions(g) ==
    LET seen == Log(g, "checkGameConditions",
                    IF g.aliveCreatures <= 0 THEN "extinct"
                    ELSE IF g.gameTimer <= 0 THEN "timeout" ELSE "continue")
    IN  IF seen.aliveCreatures <= 0 THEN transitionTo(seen, Result)
        ELSE IF seen.gameTimer <= 0 THEN transitionTo(seen, Result)
        ELSE seen

\* updateGame, lines 187-200.
updateGameWrongNoCountdown(g, deltaTime, rnd) ==
    checkGameConditions(updateGameEntities(g, deltaTime, rnd))

updateGame(g, deltaTime, rnd) ==
    checkGameConditions(updateGameEntities([g EXCEPT !.gameTimer = @ - deltaTime],
                                           deltaTime, rnd))

\* The update closures of the Title, Play and Result handlers, part_004
\* lines 97-103, 113-115, 128-135.
GameHandlerUpdate(g, state, deltaTime, rnd) ==
    CASE state = Title ->
            IF g.inputState.jumpPressed \/ g.inputState.punchPressed
            THEN transitionTo(g, Play) ELSE g
      [] state = Play -> updateGame(g, deltaTime, rnd)
      [] state = Result ->
            IF g.inputState.jumpPressed THEN transitionTo(g, Play)
            ELSE IF g.inputState.punchPressed THEN transitionTo(g, Title)
            ELSE g
      [] state = Boot -> g

\* StateMachine.update, GameState.ts lines 114-119.  The call of the handler
\* and its return are recorded.
StateMachineUpdate(g, deltaTime, rnd) ==
    IF g.stateHandlers[g.currentState].update = "game"
    THEN Log(GameHandlerUpdate(Log(g, "handler.update", g.currentState),
                               g.currentState, deltaTime, rnd),
             "handler.return", g.currentState)
    ELSE g

\* Game.update, part_004 lines 177-185.  rnd1 are the random draws of the
\* entity update inside the phase handler, rnd2 those of the second one.
UpdateIfRunning(g, deltaTime, rnd) ==
    IF g.isGameRunning THEN updateGameEntities(g, deltaTime, rnd) ELSE g

GameUpdate(g, deltaTime, rnd1, rnd2) ==
    UpdateIfRunning(StateMachineUpdate(InputManagerUpdate(g), deltaTime, rnd1),
                    deltaTime, rnd2)

(***************************************************************************)
(* Inputs the actions draw.                                                *)
(***************************************************************************)
\* Random footprints fall on the player's site or on the first spawn slot.
DrawSites == {0, 1}

\* Random draws of one entity update: the ten placement attempts all return
\* the site a, the draw after the loop returns f, the creatures in movers
\* walk to w.
Draw(a, f, movers, w) ==
    [attempts |-> [k \in 1..maxAttempts |-> a], fallback |-> f,
     movers |-> movers, waypoint |-> w]

Draws ==
    {Draw(a, a, movers, 1) : a \in DrawSites, movers \in {{}, {2, 3}}}

\* The draws of the second entity update of a frame: the same footprint, and
\* no creature reaches a new site.
Second(rnd) == [rnd EXCEPT !.movers = {}]

\* Frame delta-times in ticks: 50 ms, 100 ms and a frame of 60.1 s.  The
\* frames outside Play take 100 ms; the first frame of the countdown takes
\* 50 ms or 60.1 s.
LongFrame == 1202
DeltaTimes == {1, 2, LongFrame}

DeltaTimesAt(g) ==
    IF g.currentState # Play THEN {2}
    ELSE IF g.gameTimer = gameTimerStart THEN {1, LongFrame}
    ELSE IF g.gameTimer > gameTimerStart - FineWindow THEN {1}
    ELSE IF g.gameTimer > gameTimerStart - FineWindow - TailWindow THEN {1, 2}
    ELSE {LongFrame}

(***************************************************************************)
(* The Game: part_004, driven by frame ticks, the boot timer and key       *)
(* events.                                                                 *)
(***************************************************************************)
InitCommon ==
    /\ currentState = Boot
    /\ gameTimer = gameTimerStart
    /\ aliveCreatures = creatureCount
    /\ isGameRunning = FALSE
    /\ creatures = [i \in DOMAIN createSpawnPositions |-> NewCreature(createSpawnPositions[i])]
    /\ meteors = <<>>
    /\ spawnTimer = 0
    /\ gameTime = 0
    /\ recentTargets = <<>>
    /\ debugFrequencyMultiplier = 10
    /\ debugMeteorSpeed = defaultFallSpeed
    /\ player = NewPlayer
    /\ events = <<>>
    /\ keys = {}
    /\ inputState = InitInputState
    /\ bootTimer = FALSE
    /\ loopRunning = FALSE
    /\ calls = 0
    /\ trace = <<>>
    /\ purged = <<>>
    /\ entered = <<>>

NoProbe == [s1 |-> NoSphere, s2 |-> NoSphere, done |-> FALSE, result |-> FALSE]

\* The state after new Game(), part_004 lines 38-51.
Init ==
    /\ InitCommon
    /\ probe = NoProbe
    /\ stateHandlers = GameHandlers
    /\ harness = "game"

\* Game.start, lines 369-377: the Boot handler's onEnter is called directly,
\* then GameLoop.start (GameState.ts lines 32-37) runs the first frame.
GameStart(deltaTime, rnd) ==
    /\ harness = "game"
    /\ ~loopRunning
    /\ Commit(GameUpdate([RunOnEnter(Log(St, "start", deltaTime), Boot) EXCEPT !.loopRunning = TRUE],
                         deltaTime, rnd, Second(rnd)))

\* GameLoop.loop, GameState.ts lines 47-56: one animation frame.
Frame(deltaTime, rnd) ==
    /\ harness = "game"
    /\ loopRunning
    /\ Commit(GameUpdate(Log(St, "frame", deltaTime), deltaTime, rnd, Second(rnd)))

\* The setTimeout callback of the Boot handler, part_004 lines 85-87.
BootTimerFires ==
    /\ harness = "game"
    /\ bootTimer
    /\ Commit(transitionTo([Log(St, "timer", "") EXCEPT !.bootTimer = FALSE], Title))

KeyEventDrawn(k) ==
    \/ currentState # Play
    \/ k = "Space" /\ gameTimer <= gameTimerStart - FineWindow + KeyWindow

\* The keydown and keyup listeners, InputManager.ts lines 51-59.
KeyDown(k) ==
    /\ harness = "game"
    /\ KeyEventDrawn(k)
    /\ k \notin keys
    /\ Commit([St EXCEPT !.keys = @ \cup {k}])

KeyUp(k) ==
    /\ harness = "game"
    /\ KeyEventDrawn(k)
    /\ k \in keys
    /\ Commit([St EXCEPT !.keys = @ \ {k}])

Next ==
    \/ \E dt \in DeltaTimesAt(St), rnd \in Draws : GameStart(dt, rnd)
    \/ \E dt \in DeltaTimesAt(St), rnd \in Draws : Frame(dt, rnd)
    \/ BootTimerFires
    \/ \E k \in InputKeys : KeyDown(k)
    \/ \E k \in InputKeys : KeyUp(k)

Spec == Init /\ [][Next]_vars

(***************************************************************************)
(* The whole game with Game.start called again while the loop is running,  *)
(* and a timeout callback that is eventually run.                          *)
(***************************************************************************)
\* Game.start on a running game, part_004 lines 369-377: the Boot handler's
\* onEnter registers another timeout and GameLoop.start returns at once
\* (GameState.ts line 33).  The call is followed once the timeout of the
\* call before it has fired.
GameStartAgain ==
    /\ harness = "game"
    /\ loopRunning
    /\ ~bootTimer
    /\ Commit(RunOnEnter(Log(St, "start", 0), Boot))

BootNext ==
    \/ Next
    \/ GameStartAgain

\* The pending timeout callback has run: BootTimerFires is the only step that
\* clears bootTimer.
BootTimerRuns == bootTimer /\ bootTimer' = FALSE

\* The browser runs a pending timeout callback.
BootSpec == Init /\ [][BootNext]_vars /\ WF_bootTimer(BootTimerRuns)

(***************************************************************************)
(* The StateMachine on its own: handlers that only record their calls are  *)
(* registered and transitions are requested in any order.                  *)
(***************************************************************************)
ProbeHandlers ==
    {[onEnter |-> a, onExit |-> b, update |-> "none"] : a \in {"none", "probe"},
                                                        b \in {"none", "probe"}}

SMInit ==
    /\ InitCommon
    /\ probe = NoProbe
    /\ stateHandlers = [s \in GameState |-> NoHandler]
    /\ harness = "sm"

SMAddStateHandler(state, handler) ==
    /\ harness = "sm"
    /\ Commit(addStateHandler(St, state, handler))

SMTransitionTo(newState) ==
    /\ harness = "sm"
    /\ Commit(transitionTo(St, newState))

SMNext ==
    \/ \E s \in GameState, h \in ProbeHandlers : SMAddStateHandler(s, h)
    \/ \E t \in GameState : SMTransitionTo(t)

SMSpec == SMInit /\ [][SMNext]_vars

(***************************************************************************)
(* The entities on their own: a MeteorSpawner, a CollisionSystem, a Player *)
(* and the creatures, with their methods called in any order.              *)
(***************************************************************************)
\* Delta-times of the spawner's updates in ticks: a zero-length frame at any
\* time, and otherwise 1 s while the first hazards are Telegraphs, 0.9 s for
\* their fall to punching height and 0.1 s for their impact.
EntDeltaTimesAt(g) ==
    IF g.gameTime < telegraphDuration THEN {0, telegraphDuration}
    ELSE IF g.gameTime < telegraphDuration + 18 THEN {0, 18}
    ELSE {0, 2}

\* Delta-times of the player's updates in ticks.
EntPlayerDeltaTimes == {0, 20}

\* Random draws of the calls: every target is drawn at the origin, where the
\* player stands.
EntDraws == {Draw(0, 0, {}, 0)}

\* Values given to setFrequencyMultiplier, in tenths.
EntMultipliers == {0, 10}

\* The spawner is reset once its gameTime has reached MaxEntTime ticks.
MaxEntTime == 40

EntInit ==
    /\ InitCommon
    /\ probe = NoProbe
    /\ stateHandlers = [s \in GameState |-> NoHandler]
    /\ harness = "entities"

EntSpawnerUpdate(deltaTime, rnd) ==
    /\ harness = "entities"
    /\ gameTime + deltaTime <= MaxEntTime
    /\ Commit(SpawnerUpdate(St, deltaTime, rnd))

EntSpawnerReset ==
    /\ harness = "entities"
    /\ Commit(SpawnerReset(St))

EntSetFrequencyMultiplier(multiplier) ==
    /\ harness = "entities"
    /\ Commit(setFrequencyMultiplier(St, multiplier))

EntPlayerUpdate(deltaTime, jumpPressed) ==
    /\ harness = "entities"
    /\ Commit([St EXCEPT !.player =
                  PlayerUpdate(@, deltaTime, [InitInputState EXCEPT !.jump = jumpPressed,
                                                                    !.jumpPressed = jumpPressed])])

\* CollisionSystem.update(player, creatures, spawner.getMeteors()); the events
\* stay in the list until the next update.
EntCollisionUpdate ==
    /\ harness = "entities"
    /\ Commit(CollisionSystemUpdate(St))

EntNext ==
    \/ \E dt \in EntDeltaTimesAt(St), rnd \in EntDraws : EntSpawnerUpdate(dt, rnd)
    \/ EntSpawnerReset
    \/ \E m \in EntMultipliers : EntSetFrequencyMultiplier(m)
    \/ \E dt \in EntPlayerDeltaTimes, j \in BOOLEAN : EntPlayerUpdate(dt, j)
    \/ EntCollisionUpdate

EntSpec == EntInit /\ [][EntNext]_vars

(***************************************************************************)
(* The Player on its own: update and applyKnockback called in any order    *)
(* with drawn inputs.                                                      *)
(***************************************************************************)
\* Delta-times of the updates in ticks.
PlayerDeltaTimes == {1, 4}

\* The isolated Player receives at most MaxPlayerCalls calls.
MaxPlayerCalls == 5

\* Input states given to update: no intent, a movement intent along one axis,
\* a jump, and everything together.
PlayerInputs ==
    {InitInputState,
     [InitInputState EXCEPT !.movement = <<1, 0>>],
     [InitInputState EXCEPT !.movement = <<-1, 0>>],
     [InitInputState EXCEPT !.movement = <<0, 1>>],
     [InitInputState EXCEPT !.jump = TRUE, !.jumpPressed = TRUE],
     [InitInputState EXCEPT !.movement = <<1, 0>>, !.jump = TRUE, !.jumpPressed = TRUE,
                            !.punch = TRUE, !.punchPressed = TRUE]}

\* Directions and forces given to applyKnockback (forces in mm per tick:
\* 5, 8 and 10 m/s).
KnockbackDirections == {<<1, 0, 0>>, <<0, -1, 0>>, <<-3, 4, 0>>, <<0, 0, 0>>}
KnockbackForces == {250, explosionKnockback}

PlayerInit ==
    /\ InitCommon
    /\ probe = NoProbe
    /\ stateHandlers = [s \in GameState |-> NoHandler]
    /\ harness = "player"

PlayerDoUpdate(deltaTime, input) ==
    /\ harness = "player"
    /\ calls < MaxPlayerCalls
    /\ Commit(Log([St EXCEPT !.player = PlayerUpdate(@, deltaTime, input), !.calls = @ + 1],
                  "Player.update", [deltaTime |-> deltaTime, input |-> input]))

PlayerDoApplyKnockback(direction, force) ==
    /\ harness = "player"
    /\ calls < MaxPlayerCalls
    /\ Commit(Log([St EXCEPT !.player = applyKnockback(@, direction, force), !.calls = @ + 1],
                  "Player.applyKnockback", [direction |-> direction, force |-> force]))

PlayerNext ==
    \/ \E dt \in PlayerDeltaTimes, input \in PlayerInputs : PlayerDoUpdate(dt, input)
    \/ \E d \in KnockbackDirections, f \in KnockbackForces : PlayerDoApplyKnockback(d, f)

PlayerSpec == PlayerInit /\ [][PlayerNext]_vars

(***************************************************************************)
(* The MeteorSpawner on its own: update, setFrequencyMultiplier and reset  *)
(* called with drawn delta-times and drawn random targets.                 *)
(***************************************************************************)
\* Delta-times of the updates in ticks: zero-length and 0.6 s updates during
\* the first SpawnFineTime ticks, then updates of SpawnCoarseStep ticks, which
\* carry the spawner through the three difficulty windows up to SpawnLateTime,
\* then 0.6 s updates up to the end of the last window and 20 s updates
\* beyond it.
SpawnFineTime == 24
SpawnCoarseStep == 384
SpawnLateTime == 1176
SpawnDeltaTimesAt(g) ==
    IF g.gameTime < SpawnFineTime THEN {0, 12}
    ELSE IF g.gameTime < SpawnLateTime THEN {SpawnCoarseStep}
    ELSE IF g.gameTime < 1200 THEN {12}
    ELSE {400}

\* The spawner is followed until its gameTime has reached MaxSpawnTime ticks.
MaxSpawnTime == 1600

\* Random draws of one update: all placement attempts return site 0 and the
\* draw after the loop site 1; or the other way round; or the first nine
\* attempts return site 0 and the tenth site 1.
SpawnDraws ==
    {Draw(0, 1, {}, 0), Draw(1, 0, {}, 0),
     [Draw(0, 0, {}, 0) EXCEPT !.attempts[maxAttempts] = 1]}

SpawnInit ==
    /\ InitCommon
    /\ probe = NoProbe
    /\ stateHandlers = [s \in GameState |-> NoHandler]
    /\ harness = "spawner"

SpawnDoUpdate(deltaTime, rnd) ==
    /\ harness = "spawner"
    /\ gameTime + deltaTime <= MaxSpawnTime
    /\ Commit(SpawnerUpdate(Log(St, "MeteorSpawner.update",
                                 [deltaTime |-> deltaTime, rnd |-> rnd]), deltaTime, rnd))

SpawnDoReset ==
    /\ harness = "spawner"
    /\ gameTime > 0
    /\ Commit(Log(SpawnerReset(St), "spawner.reset", ""))

SpawnDoSetFrequencyMultiplier(multiplier) ==
    /\ harness = "spawner"
    /\ Commit(Log(setFrequencyMultiplier(St, multiplier), "spawner.setFrequencyMultiplier", ""))

SpawnNext ==
    \/ \E dt \in SpawnDeltaTimesAt(St), rnd \in SpawnDraws : SpawnDoUpdate(dt, rnd)
    \/ SpawnDoReset
    \/ \E m \in EntMultipliers : SpawnDoSetFrequencyMultiplier(m)

SpawnSpec == SpawnInit /\ [][SpawnNext]_vars

(***************************************************************************)
(* The creatures on their own with a MeteorSpawner and a CollisionSystem:  *)
(* Creature.update, MeteorSpawner.update and CollisionSystem.update called *)
(* in any order, the hazards falling on the creature spawn slots.          *)
(***************************************************************************)
\* Delta-times of the spawner's updates in ticks: zero-length updates until
\* two hazards are active, 1 s while the first hazard is a Telegraph, 0.9 s for its fall to 1.2 m, then 50 ms.
CreatureSpawnDeltaTimesAt(g) ==
    IF g.gameTime = 0 /\ Len(g.meteors) < 2 THEN {0, telegraphDuration}
    ELSE IF g.gameTime < telegraphDuration THEN {telegraphDuration}
    ELSE IF g.gameTime < telegraphDuration + 18 THEN {18}
    ELSE {1}

\* The spawner is followed until its gameTime has reached MaxCreatureTime.
MaxCreatureTime == 41

\* Random draws of a spawner update: every target on slot 1 or on slot 2.
CreatureSpawnDraws == {Draw(a, a, {}, 0) : a \in {1, 2}}

\* Random draws of the creature updates: the creatures in movers reach the
\* slot w.
CreatureWalkDraws == {Draw(0, 0, movers, w) : movers \in {{1}, {2, 3}}, w \in {1, 2}}

CreatureInit ==
    /\ InitCommon
    /\ probe = NoProbe
    /\ stateHandlers = [s \in GameState |-> NoHandler]
    /\ harness = "creatures"

\* creature.update(deltaTime, telegraphPositions) for every creature.
CreatureDoUpdate(deltaTime, rnd) ==
    /\ harness = "creatures"
    /\ Commit(UpdateCreatures(Log(St, "Creature.update",
                                   [deltaTime |-> deltaTime, rnd |-> rnd]), deltaTime, rnd))

CreatureDoSpawnerUpdate(deltaTime, rnd) ==
    /\ harness = "creatures"
    /\ gameTime + deltaTime <= MaxCreatureTime
    /\ Commit(SpawnerUpdate(St, deltaTime, rnd))

CreatureDoSetFrequencyMultiplier(multiplier) ==
    /\ harness = "creatures"
    /\ Commit(setFrequencyMultiplier(St, multiplier))

\* CollisionSystem.update(player, creatures, spawner.getMeteors()); the events
\* stay in the list until the next update.
CreatureDoCollisionUpdate ==
    /\ harness = "creatures"
    /\ Commit(CollisionSystemUpdate(St))

CreatureNext ==
    \/ \E rnd \in CreatureWalkDraws : CreatureDoUpdate(1, rnd)
    \/ \E dt \in CreatureSpawnDeltaTimesAt(St), rnd \in CreatureSpawnDraws :
          CreatureDoSpawnerUpdate(dt, rnd)
    \/ \E m \in EntMultipliers : CreatureDoSetFrequencyMultiplier(m)
    \/ CreatureDoCollisionUpdate

CreatureSpec == CreatureInit /\ [][CreatureNext]_vars

(***************************************************************************)
(* The InputManager on its own: the window's key and mouse listeners and   *)
(* update, called in any order.                                            *)
(***************************************************************************)
InputInit ==
    /\ InitCommon
    /\ probe = NoProbe
    /\ stateHandlers = [s \in GameState |-> NoHandler]
    /\ harness = "input"

\* The keydown and keyup listeners, lines 51-59.
InputKeyDown(k) ==
    /\ harness = "input"
    /\ k \notin keys
    /\ Commit(Log([St EXCEPT !.keys = @ \cup {k}], "keydown", k))

InputKeyUp(k) ==
    /\ harness = "input"
    /\ k \in keys
    /\ Commit(Log([St EXCEPT !.keys = @ \ {k}], "keyup", k))

InputMouseDown ==
    /\ harness = "input"
    /\ Commit(Log(MouseDown(St), "mousedown", ""))

InputMouseUp ==
    /\ harness = "input"
    /\ Commit(Log(MouseUp(St), "mouseup", ""))

InputDoUpdate ==
    /\ harness = "input"
    /\ Commit(InputManagerUpdate(Log(St, "InputManager.update", "")))

InputNext ==
    \/ \E k \in InputKeys : InputKeyDown(k)
    \/ \E k \in InputKeys : InputKeyUp(k)
    \/ InputMouseDown
    \/ InputMouseUp
    \/ InputDoUpdate

InputSpec == InputInit /\ [][InputNext]_vars

(***************************************************************************)
(* The MeteorSpawner with its fall-speed setter: update and setMeteorSpeed *)
(* called in any order.                                                    *)
(***************************************************************************)
\* The updates take 0.3 s or 0.6 s; the spawner is followed for MaxSpeedTime
\* ticks.
SpeedDeltaTimes == {6, 12}
MaxSpeedTime == 60

\* Values given to setMeteorSpeed in mm per tick: 6 m/s and 12 m/s.
MeteorSpeeds == {300, defaultFallSpeed}

SpeedInit ==
    /\ InitCommon
    /\ probe = NoProbe
    /\ stateHandlers = [s \in GameState |-> NoHandler]
    /\ harness = "speed"

SpeedDoUpdate(deltaTime, rnd) ==
    /\ harness = "speed"
    /\ gameTime + deltaTime <= MaxSpeedTime
    /\ Commit(SpawnerUpdate(Log(St, "MeteorSpawner.update",
                                 [deltaTime |-> deltaTime, rnd |-> rnd]), deltaTime, rnd))

SpeedDoSetMeteorSpeed(speed) ==
    /\ harness = "speed"
    /\ Commit(Log(setMeteorSpeed(St, speed), "setMeteorSpeed", speed))

SpeedNext ==
    \/ \E dt \in SpeedDeltaTimes, rnd \in EntDraws : SpeedDoUpdate(dt, rnd)
    \/ \E speed \in MeteorSpeeds : SpeedDoSetMeteorSpeed(speed)

SpeedSpec == SpeedInit /\ [][SpeedNext]_vars

(***************************************************************************)
(* The terminal check on its own: checkGameConditions called once in a     *)
(* Play session with a drawn alive count and a drawn countdown.            *)
(***************************************************************************)
\* Countdown values in ticks at the check, from 0.5 s below zero to 1 s.
CheckTimers == -10..20

CheckInit ==
    /\ \E alive \in 0..creatureCount, timer \in CheckTimers :
          /\ aliveCreatures = alive
          /\ gameTimer = timer
          /\ creatures = [i \in DOMAIN createSpawnPositions |->
                             [NewCreature(createSpawnPositions[i]) EXCEPT !.isAlive = i <= alive]]
    /\ currentState = Play
    /\ isGameRunning = TRUE
    /\ loopRunning = TRUE
    /\ stateHandlers = GameHandlers
    /\ meteors = <<>>
    /\ spawnTimer = 0
    /\ gameTime = 0
    /\ recentTargets = <<>>
    /\ debugFrequencyMultiplier = 10
    /\ debugMeteorSpeed = defaultFallSpeed
    /\ player = NewPlayer
    /\ events = <<>>
    /\ keys = {}
    /\ inputState = InitInputState
    /\ bootTimer = FALSE
    /\ calls = 0
    /\ trace = <<>>
    /\ purged = <<>>
    /\ entered = <<>>
    /\ probe = NoProbe
    /\ harness = "check"

CheckDoCheck ==
    /\ harness = "check"
    /\ currentState = Play
    /\ trace = <<>>
    /\ Commit(checkGameConditions(St))

CheckNext == CheckDoCheck

CheckSpec == CheckInit /\ [][CheckNext]_vars

(***************************************************************************)
(* The hazards' lives: the MeteorSpawner updated again and again, with     *)
(* falling hazards destroyed at any time, as the CollisionSystem does for  *)
(* a punch.  Updates with a delta-time above zero keep coming.             *)
(***************************************************************************)
\* Delta-times in ticks: updates of LiveCoarseStep ticks up to the last
\* minute's final seconds, then updates of 0 and 0.6 s.
LiveCoarseStep == 384
LiveFineTime == 1152
LiveDeltaTimesAt(g) ==
    IF g.gameTime < LiveFineTime THEN {LiveCoarseStep} ELSE {0, 12}

\* The spawner is followed until its gameTime has reached MaxLiveTime ticks,
\* 3 s after the end of the last difficulty window.
MaxLiveTime == 1260

LiveInit ==
    /\ InitCommon
    /\ probe = NoProbe
    /\ stateHandlers = [s \in GameState |-> NoHandler]
    /\ harness = "lives"

LiveDoUpdate(deltaTime, rnd) ==
    /\ harness = "lives"
    /\ gameTime + deltaTime <= MaxLiveTime
    /\ Commit(SpawnerUpdate(Log(St, "MeteorSpawner.update",
                                 [deltaTime |-> deltaTime, rnd |-> rnd]), deltaTime, rnd))

\* meteor.destroy() for a hazard that can be destroyed, CollisionSystem.ts
\* lines 30-36.
LiveDoDestroy(i) ==
    /\ harness = "lives"
    /\ canBeDestroyed(meteors[i])
    /\ Commit(Log([St EXCEPT !.meteors[i] = destroy(@)], "Meteor.destroy", i))

\* A frame whose delta-time is above zero: the spawner's clock advances
\* (src/unnamed/part_001 line 39).
LiveTimePasses ==
    \E dt \in LiveDeltaTimesAt(St) \ {0} :
        /\ harness = "lives"
        /\ gameTime + dt <= MaxLiveTime
        /\ gameTime' = gameTime + dt

LiveNext ==
    \/ \E dt \in LiveDeltaTimesAt(St), rnd \in EntDraws \cup CreatureSpawnDraws :
          LiveDoUpdate(dt, rnd)
    \/ \E i \in DOMAIN meteors : LiveDoDestroy(i)

\* Frames with a delta-time above zero keep coming while the spawner is
\* followed.
LiveSpec == LiveInit /\ [][LiveNext]_vars /\ WF_gameTime(LiveTimePasses)

(***************************************************************************)
(* The sphere test on its own: two spheres are drawn and the test of       *)
(* CollisionSystem.sphereIntersectsSphere / checkSphereIntersection is     *)
(* applied to them.                                                        *)
(***************************************************************************)
\* Radii, horizontal offsets and heights of the drawn spheres, in mm.
ProbeRadii == {450, 500, 600}
ProbeOffsets == {0, 600, 1000, 1010}
ProbeHeights == {-1000, 0, 800, 1000, 1010}

SphereInit ==
    /\ InitCommon
    /\ stateHandlers = [s \in GameState |-> NoHandler]
    /\ harness = "spheres"
    /\ \E r1 \in ProbeRadii, r2 \in ProbeRadii, site \in {0, 1},
          off \in ProbeOffsets, y \in ProbeHeights :
          probe = [s1 |-> Sphere(0, 0, 0, r1), s2 |-> Sphere(site, off, y, r2),
                   done |-> FALSE, result |-> FALSE]

SphereTest ==
    /\ harness = "spheres"
    /\ ~probe.done
    /\ probe' = [probe EXCEPT !.done = TRUE,
                              !.result = sphereIntersectsSphere(probe.s1, probe.s2)]
    /\ UNCHANGED <<currentState, stateHandlers, gameTimer, aliveCreatures, isGameRunning,
                   creatures, meteors, spawnTimer, gameTime, recentTargets,
                   debugFrequencyMultiplier, debugMeteorSpeed, player, events, keys,
                   inputState, bootTimer, trace, purged, entered, loopRunning, calls,
                   harness>>

SphereNext == SphereTest

SphereSpec == SphereInit /\ [][SphereNext]_vars

(***************************************************************************)
(* Properties.                                                             *)
(***************************************************************************)
TypeOK == currentState \in GameState

\* The adjacency table of the phases as the specification states it.
AdjacencyTable ==
    {<<Boot, Title>>, <<Title, Play>>, <<Play, Result>>, <<Result, Play>>, <<Result, Title>>}

\* The positions of the calls named op in a call history.
CallsOf(tr, op) == {i \in DOMAIN tr : tr[i].op = op}

\* The last action was a transitionTo(t) requested in phase s.
Requested(tr, s, t) ==
    /\ tr # <<>>
    /\ tr[1].op = "transitionTo"
    /\ tr[1].arg = t
    /\ tr[1].cur = s

\* C1: a transition request whose (current, target) pair is not in the
\* adjacency table, a self-transition included, leaves the current phase
\* unchanged and invokes neither the current phase's onExit nor the target
\* phase's onEnter.
C1_RejectedTransitionIsNoOp ==
    [][\A t \in GameState :
          (Requested(trace', currentState, t) /\ <<currentState, t>> \notin AdjacencyTable)
          => /\ currentState' = currentState
             /\ CallsOf(trace', "onExit") = {}
             /\ CallsOf(trace', "onEnter") = {}
             /\ stateHandlers' = stateHandlers]_vars

\* A rejected self-transition was requested while both callbacks of the
\* phase were registered.
C1_Witness ==
    /\ harness = "sm"
    /\ Requested(trace, currentState, currentState)
    /\ \E i \in DOMAIN trace : trace[i].op = "warn"
    /\ stateHandlers[currentState].onExit = "probe"
    /\ stateHandlers[currentState].onEnter = "probe"

\* C2: on an accepted transition from s to t the onExit callback of s, if
\* registered, runs exactly once and strictly before the onEnter callback of
\* t, if registered, which runs exactly once; the current phase is s while
\* onExit runs and t while onEnter runs and afterwards.
C2_ExitBeforeEnter ==
    [][\A t \in GameState :
          (Requested(trace', currentState, t) /\ <<currentState, t>> \in AdjacencyTable)
          => LET exits == CallsOf(trace', "onExit")
                 enters == CallsOf(trace', "onEnter")
             IN  /\ Cardinality(exits) =
                        (IF stateHandlers[currentState].onExit # "none" THEN 1 ELSE 0)
                 /\ Cardinality(enters) =
                        (IF stateHandlers[t].onEnter # "none" THEN 1 ELSE 0)
                 /\ \A i \in exits : /\ trace'[i].arg = currentState
                                     /\ trace'[i].cur = currentState
                 /\ \A j \in enters : /\ trace'[j].arg = t
                                      /\ trace'[j].cur = t
                 /\ \A i \in exits, j \in enters : i < j
                 /\ currentState' = t]_vars

\* An accepted transition ran the registered onExit and then the registered
\* onEnter.
C2_Witness ==
    /\ harness = "sm"
    /\ Len(trace) = 3
    /\ trace[1].op = "transitionTo"
    /\ trace[2].op = "onExit"
    /\ trace[3].op = "onEnter"
    /\ currentState = trace[1].arg

\* The lifecycle histories a hazard may have.
LifecyclePaths ==
    {<<Telegraph>>, <<Telegraph, Falling>>,
     <<Telegraph, Falling, Destroyed>>, <<Telegraph, Falling, Exploded>>}

\* C3: under any sequence of spawner updates and collision passes a hazard's
\* state only moves forward along Telegraph -> Falling -> {Destroyed |
\* Exploded}; Destroyed and Exploded are terminal and a hazard never returns
\* to Telegraph or Falling.
C3_LifecycleMonotone ==
    /\ \A i \in DOMAIN meteors :
          /\ meteors[i].hist \in LifecyclePaths
          /\ meteors[i].state = meteors[i].hist[Len(meteors[i].hist)]
    /\ \A k \in DOMAIN purged :
          /\ purged[k].m.hist \in LifecyclePaths
          /\ purged[k].m.state = purged[k].m.hist[Len(purged[k].m.hist)]

\* A Destroyed hazard is still in the active set when a collision pass runs
\* again, next to a Telegraph.
C3_Witness ==
    /\ harness = "entities"
    /\ \E i \in DOMAIN meteors : meteors[i].hist = <<Telegraph, Falling, Destroyed>>
    /\ \E i \in DOMAIN meteors : meteors[i].state = Telegraph
    /\ events = <<>>
    /\ trace # <<>>
    /\ trace[1].op = "collision.update"

\* A hazard that exploded has been removed from the active set.
C3_WitnessExploded ==
    /\ harness = "entities"
    /\ \E k \in DOMAIN purged : purged[k].m.hist = <<Telegraph, Falling, Exploded>>

\* C4: after every MeteorSpawner.update the number of active hazards is at
\* most 8, for any deltaTime >= 0 and any frequency multiplier >= 0, the
\* multiplier 0 included.
C4_ActiveHazardsCapped == Len(meteors) <= maxSimultaneousMeteors

\* With multiplier 0 an update attempted a spawn while 8 hazards were active.
C4_Witness ==
    /\ harness = "entities"
    /\ debugFrequencyMultiplier = 0
    /\ Len(meteors) = maxSimultaneousMeteors
    /\ \E i \in CallsOf(trace, "trySpawnMeteor") : trace[i].arg = "full"

\* The hazard of a purged entry reached terrain height on its last move.
ReachedTerrain(m) ==
    /\ Falling \in {m.hist[i] : i \in DOMAIN m.hist}
    /\ m.y <= getTerrainHeight(m.site) + meteorRadius

\* The positions of the collision events of the given type that the last
\* action handled.
Handled(type) ==
    {i \in CallsOf(trace, "handleCollisionEvent") : trace[i].arg = type}

\* C5: a Falling hazard that in one frame reaches terrain height and also
\* overlaps the player's active punch sphere ends that frame Destroyed, with
\* a punch_hit_meteor event emitted, not Exploded.
C5_DestructionTakesPrecedence ==
    \A k \in DOMAIN purged :
        (ReachedTerrain(purged[k].m) /\ purged[k].punched)
        => /\ purged[k].m.state = Destroyed
           /\ Handled("punch_hit_meteor") # {}

\* C6: during Play every hazard that reaches Exploded is evaluated once by
\* the explosion pass of the collision resolver before it is removed from the
\* spawner's active set.
C6_ExplodedEvaluatedOnce ==
    \A k \in DOMAIN purged :
        (harness = "game" /\ purged[k].m.state = Exploded) => purged[k].m.blasts = 1

\* C7: within one Play session the alive-creature count never increases from
\* one frame to the next and no creature's alive flag changes from false to
\* true.
C7_AliveMonotone ==
    [][(currentState = Play /\ currentState' = Play)
       => /\ aliveCreatures' <= aliveCreatures
          /\ \A i \in DOMAIN creatures :
                ~creatures[i].isAlive => ~creatures'[i].isAlive]_vars

\* A creature is dead while the session goes on.
C7_Witness ==
    /\ currentState = Play
    /\ aliveCreatures < creatureCount
    /\ aliveCreatures > 0
    /\ \E i \in DOMAIN creatures : ~creatures[i].isAlive
    /\ Handled("meteor_hit_creature") = {}
    /\ CallsOf(trace, "creatures.update") # {}

\* C8: a terminal check during Play that sees an alive-creature count of 0
\* transitions the phase to Result whatever the countdown, and a frame that
\* starts in Play with an alive-creature count of 0 ends in Result.
C8_ExtinctionEndsSession ==
    [][/\ \A i \in CallsOf(trace', "checkGameConditions") :
            (trace'[i].cur = Play /\ trace'[i].alive = 0) => currentState' = Result
       /\ (currentState = Play /\ aliveCreatures = 0 /\ CallsOf(trace', "frame") # {})
            => currentState' = Result]_vars

\* A terminal check saw no creature alive with the countdown still running,
\* and the phase is Result.
C8_Witness ==
    /\ currentState = Result
    /\ \E i \in CallsOf(trace, "checkGameConditions") :
          /\ trace[i].cur = Play
          /\ trace[i].alive = 0
          /\ trace[i].timer > 0

\* C9: in a session in which no creature was hit, a frame whose terminal
\* check sees a countdown above 0 leaves the phase Play, and the frame whose
\* accumulated delta-time makes the countdown reach 0 or less ends in Result
\* with the alive-creature count still 3.  The countdown the check sees is
\* the countdown before the frame less the frame's delta-time.
C9_TimeoutEndsSession ==
    [][\A i \in CallsOf(trace', "checkGameConditions") :
          (trace'[i].alive = creatureCount /\ trace'[1].op = "frame")
          => /\ trace'[i].timer = gameTimer - trace'[1].arg
             /\ trace'[i].timer > 0 => currentState' = Play
             /\ trace'[i].timer <= 0 => (currentState' = Result /\ aliveCreatures' = creatureCount)]_vars

\* The countdown ran out with all creatures alive and the phase is Result.
C9_Witness ==
    /\ currentState = Result
    /\ aliveCreatures = creatureCount
    /\ \E i \in CallsOf(trace, "checkGameConditions") :
          /\ trace[i].alive = creatureCount
          /\ trace[i].timer <= 0

\* C10: every transition into Play resets the session: countdown 60 s, alive
\* count 3, three living creatures at the spawn slots, and a spawner with no
\* hazards, gameTime 0, spawnTimer 0 and no recent targets.
C10_EnterPlayResets ==
    \A k \in DOMAIN entered :
        harness = "game"
        => LET a == entered[k].after
           IN  /\ a.gameTimer = 1200
               /\ a.aliveCreatures = 3
               /\ DOMAIN a.creatures = 1..3
               /\ \A i \in 1..3 : /\ a.creatures[i].isAlive
                                  /\ a.creatures[i].site = createSpawnPositions[i]
               /\ a.meteors = <<>>
               /\ a.gameTime = 0
               /\ a.spawnTimer = 0
               /\ a.recentTargets = <<>>

\* Play was entered from Result after a session in which creatures died and
\* hazards were active.
C10_Witness ==
    /\ harness = "game"
    /\ entered # <<>>
    /\ Requested(trace, Result, Play) \/ \E i \in DOMAIN trace :
          trace[i].op = "transitionTo" /\ trace[i].cur = Result /\ trace[i].arg = Play
    /\ entered[1].before.aliveCreatures = 0
    /\ entered[1].before.meteors # <<>>
    /\ entered[1].before.gameTime > 0
    /\ entered[1].before.recentTargets # <<>>
    /\ entered[1].before.gameTimer < gameTimerStart

\* Every creature died in the second entity update of a frame, after the
\* terminal check of that frame: the phase is still Play.
C8_WitnessAfterCheck ==
    /\ currentState = Play
    /\ aliveCreatures = 0
    /\ gameTimer > 0

\* A direction whose length is the whole number len.
HasLength(d, len) == len > 0 /\ len * len = d[1] * d[1] + d[2] * d[2] + d[3] * d[3]

\* C11: applyKnockback(direction, force) with a non-zero direction sets the
\* velocity to the unit vector of direction times force, with the vertical
\* component raised to at least 3 m/s (150 mm per tick), sets the knockback
\* flag, sets the knockback timer to 0.4 s (8 ticks) and clears the grounded
\* flag.  A grounded player at rest knocked with direction (1, 0, 0) and
\* force 5 m/s gets the velocity (5, 3, 0) m/s.
C11_ApplyKnockback ==
    [][\A k \in CallsOf(trace', "Player.applyKnockback") :
          LET d == trace'[k].arg.direction
              f == trace'[k].arg.force
          IN  /\ \A len \in 1..5 :
                    HasLength(d, len) =>
                        /\ player'.vx * len = d[1] * f
                        /\ player'.vz * len = d[3] * f
                        /\ IF d[2] * f >= 150 * len
                           THEN player'.vy * len = d[2] * f
                           ELSE player'.vy = 150
                        /\ player'.isKnockedBack
                        /\ player'.knockbackTimer = 8
                        /\ ~player'.isGrounded
              /\ (d = <<1, 0, 0>> /\ f = 250) =>
                    <<player'.vx, player'.vy, player'.vz>> = <<250, 150, 0>>]_vars

\* A grounded player at rest has just been knocked with direction (1, 0, 0)
\* and force 5 m/s.
C11_Witness ==
    /\ harness = "player"
    /\ Len(trace) = 1
    /\ trace[1].op = "Player.applyKnockback"
    /\ trace[1].arg = [direction |-> <<1, 0, 0>>, force |-> 250]
    /\ player.vx = 250 /\ player.vy = 150 /\ player.vz = 0
    /\ player.y = getTerrainHeight(0) + playerHeightOffset
    /\ player.isKnockedBack /\ ~player.isGrounded

\* A player has just been knocked along a slanted direction, (-3, 4, 0).
C11_WitnessSlanted ==
    /\ harness = "player"
    /\ Len(trace) = 1
    /\ trace[1].op = "Player.applyKnockback"
    /\ trace[1].arg = [direction |-> <<-3, 4, 0>>, force |-> explosionKnockback]
    /\ player.vx = -240 /\ player.vy = 320

\* C12: while the player is in knockback recovery, Player.update ignores the
\* movement, jump and punch inputs: whatever the input state, the player
\* after the update is the player an update with the all-zero input state
\* gives from the same state and delta-time.
C12_KnockbackIgnoresInput ==
    [][\A k \in CallsOf(trace', "Player.update") :
          player.isKnockedBack =>
              player' = PlayerUpdate(player, trace'[k].arg.deltaTime, InitInputState)]_vars

\* A player still in knockback recovery after an update that was given a
\* movement intent, a jump and a punch.
C12_Witness ==
    /\ harness = "player"
    /\ Len(trace) = 1
    /\ trace[1].op = "Player.update"
    /\ trace[1].arg.input.movement = <<1, 0>>
    /\ trace[1].arg.input.jumpPressed
    /\ trace[1].arg.input.punchPressed
    /\ player.isKnockedBack
    /\ player.isGrounded

\* C13: after every Player.update, in the normal branch or in knockback
\* recovery and whatever the velocity, the player's coordinates satisfy
\* -4.5 <= x <= 4.5 and -4.5 <= z <= 4.5 (metres; 4500 mm).
C13_StaysWithinStage ==
    (harness = "player" /\ trace # <<>> /\ trace[1].op = "Player.update") =>
        /\ -4500 <= player.x /\ player.x <= 4500
        /\ -4500 <= player.z /\ player.z <= 4500

\* C14: the punch is triggered once per airborne excursion: between the
\* player leaving the ground and its next landing punchActive goes from
\* false to true exactly once, so the count of such changes since the
\* player last left the ground never reaches two.
C14_PunchOncePerExcursion ==
    harness = "player" => player.punches <= 1

\* The positions in the last action's call history of the entity updates
\* (player, creatures, hazards) and of the collision passes.
EntityUpdates(tr) ==
    CallsOf(tr, "player.update") \cup CallsOf(tr, "creatures.update")
        \cup CallsOf(tr, "spawner.update")

CollisionPasses(tr) == CallsOf(tr, "collision.update")

\* C15: within every frame during Play the entity updates precede the
\* collision pass, which precedes the consumption of its events, which
\* precedes the terminal-condition check; the check runs once per frame,
\* after all of the frame's collision passes, and no entity update or
\* collision pass runs after it in the same frame.
C15_FrameOrder ==
    LET chk == CallsOf(trace, "checkGameConditions")
    IN  /\ Cardinality(chk) <= 1
        /\ \A c \in chk :
              /\ \E u \in EntityUpdates(trace), k \in CollisionPasses(trace) : u < k /\ k < c
              /\ \A i \in EntityUpdates(trace) \cup CollisionPasses(trace)
                            \cup CallsOf(trace, "handleCollisionEvent") : i < c

\* The events of the given types in the event list of the collision system.
EventsOf(types) == {i \in DOMAIN events : events[i].type \in types}

ProbeDistance2 ==
    LET dh == SiteDistance(probe.s1.site, probe.s2.site) + Abs(probe.s1.off - probe.s2.off)
        dy == probe.s1.y - probe.s2.y
    IN  dh * dh + dy * dy

\* C17: two spheres intersect exactly when the distance between their centres
\* is at most the sum of their radii, the boundary included: centres 1.0 m
\* apart with radii 0.5 and 0.5 intersect, centres 1.01 m apart do not.
C17_SphereOverlapInclusive ==
    (harness = "spheres" /\ probe.done) =>
        /\ probe.result = (ProbeDistance2 <= (probe.s1.r + probe.s2.r) * (probe.s1.r + probe.s2.r))
        /\ (probe.s1.r = 500 /\ probe.s2.r = 500 /\ ProbeDistance2 = 1000 * 1000)
              => probe.result = TRUE
        /\ (probe.s1.r = 500 /\ probe.s2.r = 500 /\ ProbeDistance2 = 1010 * 1010)
              => probe.result = FALSE

\* The test has been applied to two spheres of radius 0.5 m whose centres
\* are exactly 1.0 m apart.
C17_Witness ==
    /\ harness = "spheres"
    /\ probe.done /\ probe.result = TRUE
    /\ probe.s1.r = 500 /\ probe.s2.r = 500
    /\ ProbeDistance2 = 1000 * 1000

\* The test has been applied to two spheres of radius 0.5 m whose centres
\* are 1.01 m apart.
C17_WitnessApart ==
    /\ harness = "spheres"
    /\ probe.done /\ probe.result = FALSE
    /\ probe.s1.r = 500 /\ probe.s2.r = 500
    /\ ProbeDistance2 = 1010 * 1010

\* C18: in every execution of the whole Game (frame ticks, the boot timer
\* callback and key events in any interleaving) every change of the current
\* phase is one of Boot -> Title, Title -> Play, Play -> Result,
\* Result -> Play, Result -> Title; Boot is never entered again, and the
\* current phase is always exactly one of the four phases.
C18_PhaseChangesFollowTable ==
    [][/\ currentState' \in {Boot, Title, Play, Result}
       /\ currentState' # currentState =>
             <<currentState, currentState'>> \in
                 {<<Boot, Title>>, <<Title, Play>>, <<Play, Result>>,
                  <<Result, Play>>, <<Result, Title>>}
       /\ currentState' = Boot => currentState = Boot]_vars

\* The Game is back on the Title screen after a transition requested in
\* Result.
C18_Witness ==
    /\ harness = "game"
    /\ currentState = Title
    /\ \E k \in CallsOf(trace, "transitionTo") : trace[k].cur = Result /\ trace[k].arg = Title

\* The Game has started a new session directly from Result.
C18_WitnessRetry ==
    /\ harness = "game"
    /\ currentState = Play
    /\ \E k \in CallsOf(trace, "transitionTo") : trace[k].cur = Result /\ trace[k].arg = Play

\* C19: the delayed Boot -> Title transition is evaluated through the frame
\* update path: the current phase changes only in a step that is a frame
\* tick (the first frame run by start, or a later animation frame), never
\* in a timer callback or another callback running between the ticks.
C19_PhaseChangesOnlyInFrames ==
    [][currentState' # currentState =>
          (trace' # <<>> /\ trace'[1].op \in {"frame", "start"})]_vars

\* C20: a hazard that has entered a terminal state (Destroyed or Exploded)
\* stays in the spawner's active set for exactly one further Meteor.update
\* call and is then purged, whether it was exploded by the spawner's own
\* update or destroyed by the collision pass: every purged hazard has
\* received exactly one update call in its terminal state.
C20_TerminalRetainedOneEvaluation ==
    \A k \in DOMAIN purged :
        /\ purged[k].m.state \in {Destroyed, Exploded}
        /\ purged[k].m.evals = 1


\* C21: during Play each frame advances the player, the creatures, the
\* spawner and the collision resolver exactly once, each by the frame's
\* delta-time, so that at the end of every frame that ran in Play and stays
\* in Play the spawner's cumulative time and the countdown add up to the
\* session length: gameTime + gameTimer = 60 s (1200 ticks).
C21_OneAdvancePerFrame ==
    (harness = "game" /\ currentState = Play /\ trace # <<>>
        /\ trace[1].op = "frame" /\ trace[1].cur = Play) =>
        /\ Cardinality(CallsOf(trace, "player.update")) = 1
        /\ Cardinality(CallsOf(trace, "creatures.update")) = 1
        /\ Cardinality(CallsOf(trace, "spawner.update")) = 1
        /\ Cardinality(CallsOf(trace, "collision.update")) = 1
        /\ gameTime + gameTimer = 1200


\* C22: on every transition into Play, in particular Result -> Play, the
\* player is reset to its start pose: position (0, 1, 0), zero velocity, and
\* knockback and punch state cleared, wherever the previous session left it.
C22_EnterPlayResetsPlayer ==
    \A k \in DOMAIN entered :
        harness = "game"
        => LET q == entered[k].player
           IN  /\ <<q.x, q.y, q.z>> = <<0, 1000, 0>>
               /\ <<q.vx, q.vy, q.vz>> = <<0, 0, 0>>
               /\ ~q.isKnockedBack /\ q.knockbackTimer = 0
               /\ ~q.punchActive


\* C23: once activated the punch stays active for at most punchDuration
\* (0.25 s = 5 ticks of accumulated update delta-time), also when the player
\* is put into knockback recovery while the punch is active: whenever
\* getPunchSphere() returns a sphere, less than 0.25 s of update time have
\* passed since the activation.
C23_PunchEndsAfterDuration ==
    harness = "player" =>
        (getPunchSphere(player) # NoSphere => player.punchAge < 5)


\* C24: the vertical velocity is set to jumpSpeed (8.5 m/s = 425 mm per tick)
\* only in an update whose input has jumpPressed while the player is
\* grounded, and that update clears the grounded flag; while the player is
\* airborne a jumpPressed edge changes nothing (the update gives what it
\* gives without the edge), and a grounded player without the edge stays
\* grounded with vertical velocity 0.
C24_NoDoubleJump ==
    [][\A k \in CallsOf(trace', "Player.update") :
          LET dt == trace'[k].arg.deltaTime
              input == trace'[k].arg.input
          IN  /\ (player.isGrounded /\ ~player.isKnockedBack /\ input.jumpPressed) =>
                    /\ player'.vy = 425 - 45 * dt
                    /\ ~player'.isGrounded
              /\ (~player.isGrounded /\ input.jumpPressed) =>
                    player' = PlayerUpdate(player, dt,
                                  [input EXCEPT !.jump = FALSE, !.jumpPressed = FALSE])
              /\ (player.isGrounded /\ (player.isKnockedBack \/ ~input.jumpPressed)) =>
                    /\ player'.isGrounded
                    /\ player'.vy = 0]_vars

\* A player that jumped in its second update has just received, airborne
\* above its start height, a third update with jumpPressed.
C24_Witness ==
    /\ harness = "player"
    /\ calls = 3
    /\ Len(trace) = 1
    /\ trace[1].op = "Player.update"
    /\ trace[1].arg.input.jumpPressed
    /\ ~player.isGrounded /\ ~player.isKnockedBack
    /\ player.y > 1000
    /\ player.vy < 425 - 45 * trace[1].arg.deltaTime


\* C25: in a Player.update outside knockback recovery with a non-zero
\* movement intent and dt > 0, the horizontal velocity has magnitude
\* moveSpeed (4 m/s = 200 mm per tick) when the player is grounded and
\* moveSpeed * 0.6 (120 mm per tick) when it is airborne, and the horizontal
\* position changes in that update by exactly velocity * dt whenever the
\* stage bounds are out of reach.
C25_MovesByVelocityTimesDt ==
    [][\A k \in CallsOf(trace', "Player.update") :
          LET dt == trace'[k].arg.deltaTime
              m == trace'[k].arg.input.movement
              speed == IF player.isGrounded THEN 200 ELSE 120
          IN  (~player.isKnockedBack /\ m # <<0, 0>> /\ dt > 0) =>
                  /\ player'.vx = m[1] * speed
                  /\ player'.vz = m[2] * speed
                  /\ (Abs(player.x) + 2 * speed * dt <= 4500
                        /\ Abs(player.z) + 2 * speed * dt <= 4500) =>
                        /\ player'.x = player.x + player'.vx * dt
                        /\ player'.z = player.z + player'.vz * dt]_vars


\* The difficulty window that is active at the spawner time t (in ticks), as
\* the windows are configured: [0, 20), [20, 40) and [40, 60) seconds with
\* spawn intervals 1.2, 0.9 and 0.7 s; 0 when t is outside every window.
WindowInterval(t) ==
    IF 0 <= t /\ t < 400 THEN 24
    ELSE IF 400 <= t /\ t < 800 THEN 18
    ELSE IF 800 <= t /\ t < 1200 THEN 14
    ELSE 0

\* The spawn accumulator reaches spawnInterval * frequencyMultiplier inside
\* an active window in an update by dt made in the current state
\* (the multiplier is held in tenths).
SpawnDue(dt) ==
    /\ WindowInterval(gameTime + dt) # 0
    /\ (spawnTimer + dt) * 10 >= WindowInterval(gameTime + dt) * debugFrequencyMultiplier

\* C26: whenever, inside an active difficulty window, the spawn accumulator
\* reaches spawnInterval * frequencyMultiplier, the update makes one spawn
\* attempt and resets the accumulator to 0, whether or not a hazard was
\* added; when the active set is already at the cap of 8 the attempt adds no
\* hazard and leaves the recent-target history unchanged, and every hazard
\* that was active is afterwards either still active or purged by this
\* update's lifecycle evaluation.
C26_AttemptResetsAccumulator ==
    [][\A u \in CallsOf(trace', "MeteorSpawner.update") :
          LET dt == trace'[u].arg.deltaTime
              tries == CallsOf(trace', "trySpawnMeteor")
          IN  /\ SpawnDue(dt) => (Cardinality(tries) = 1 /\ spawnTimer' = 0)
              /\ ~SpawnDue(dt) => (tries = {} /\ spawnTimer' = spawnTimer + dt)
              /\ (SpawnDue(dt) /\ Len(meteors) >= 8) =>
                    /\ \A k \in tries : trace'[k].arg = "full"
                    /\ recentTargets' = recentTargets
                    /\ Len(meteors') + Len(purged') = Len(meteors)
                    /\ Len(meteors') <= 8]_vars

\* An update has just made a spawn attempt with 8 hazards active: nothing
\* was added and the accumulator is back at 0.
C26_Witness ==
    /\ harness = "spawner"
    /\ \E k \in CallsOf(trace, "trySpawnMeteor") : trace[k].arg = "full"
    /\ Len(meteors) = 8
    /\ spawnTimer = 0
    /\ gameTime > 0


\* The configured windows that contain the spawner time t.
WindowsAt(t) ==
    {i \in DOMAIN difficultyPhases :
        difficultyPhases[i].startTime <= t /\ t < difficultyPhases[i].endTime}

\* The hazards of a list that are in the given lifecycle state.
InState(ms, st) == {i \in DOMAIN ms : ms[i].state = st}

\* C27: when the spawner's cumulative time is outside every configured
\* window (gameTime >= 60 s = 1200 ticks) an update adds no new hazard, while
\* the hazards already active still advance through their lifecycle: a
\* Telegraph whose 1.0 s have passed becomes Falling, a Falling hazard that
\* reaches the terrain explodes and is purged.  For every gameTime in
\* [0, 60) exactly one window is selected.
C27_NoSpawnOutsideWindows ==
    /\ [](trace = <<>> => \A t \in 0..1199 :
                              /\ Cardinality(WindowsAt(t)) = 1
                              /\ getCurrentDifficultyPhase([gameTime |-> t]) # NoPhase)
    /\ [][\A u \in CallsOf(trace', "MeteorSpawner.update") :
            LET dt == trace'[u].arg.deltaTime
            IN  gameTime + dt >= 1200 =>
                  /\ CallsOf(trace', "trySpawnMeteor") = {}
                  /\ Len(meteors') + Len(purged') = Len(meteors)
                  /\ Cardinality(InState(meteors', Telegraph))
                        = Cardinality({i \in InState(meteors, Telegraph) :
                                          meteors[i].timer + dt < 20})
                  /\ Cardinality({i \in InState(meteors, Falling) :
                                     meteors[i].y - meteors[i].fallSpeed * dt
                                         <= getTerrainHeight(meteors[i].site) + 450})
                        = Len(purged')
                  /\ \A k \in DOMAIN purged' : purged'[k].m.state = Exploded]_vars

\* An update made after the last window, with the accumulator past the
\* spawn interval, has just turned a telegraphed hazard into a falling one
\* and purged an exploded one.
C27_Witness ==
    /\ harness = "spawner"
    /\ CallsOf(trace, "MeteorSpawner.update") # {}
    /\ gameTime >= 1200
    /\ spawnTimer * 10 >= 14 * debugFrequencyMultiplier
    /\ \E i \in InState(meteors, Falling) : meteors[i].y = spawnHeight
    /\ purged # <<>>


\* The placement attempts of a draw that keep minTargetDistance (2.0 m) from
\* every target of the recent history.
FarAttempts(rnd, recent) ==
    {a \in 1..maxAttempts :
        \A k \in DOMAIN recent : SiteDistance(rnd.attempts[a], recent[k]) >= minTargetDistance}

\* The target the spawner has to use for a draw: the first attempt that is
\* far enough from every recent target, else the unconstrained draw.
ExpectedTarget(rnd, recent) ==
    IF FarAttempts(rnd, recent) = {} THEN rnd.fallback
    ELSE rnd.attempts[CHOOSE a \in FarAttempts(rnd, recent) :
                         \A b \in FarAttempts(rnd, recent) : a <= b]

\* C28: a spawn attempt made below the cap of 8 hazards adds exactly one
\* hazard; its target is the first of the 10 attempts that is at least 2.0 m
\* from every recent target, and when there is none, the unconstrained random
\* target; the recent history then holds at most 2 targets, the oldest being
\* evicted first.
C28_SpawnBelowCapAddsOne ==
    [][\A u \in CallsOf(trace', "MeteorSpawner.update") :
         (CallsOf(trace', "trySpawnMeteor") # {} /\ Len(meteors) < maxSimultaneousMeteors) =>
            LET target == ExpectedTarget(trace'[u].arg.rnd, recentTargets)
            IN  /\ Len(meteors') + Len(purged') = Len(meteors) + 1
                /\ meteors' # <<>>
                /\ meteors'[Len(meteors')].site = target
                /\ meteors'[Len(meteors')].state \in {Telegraph, Falling}
                /\ meteors'[Len(meteors')].y = spawnHeight
                /\ Len(recentTargets') <= maxRecentTargets
                /\ recentTargets' =
                      IF Len(recentTargets) = maxRecentTargets
                      THEN <<recentTargets[2], target>>
                      ELSE Append(recentTargets, target)]_vars

\* A spawn in which all 10 attempts returned site 0, the hazard was
\* nevertheless placed at site 1 (the draw after the loop), and the history
\* is full.
C28_Witness ==
    /\ harness = "spawner"
    /\ \E k \in CallsOf(trace, "trySpawnMeteor") : trace[k].arg = "spawned"
    /\ \E u \in CallsOf(trace, "MeteorSpawner.update") :
          /\ \A a \in 1..maxAttempts : trace[u].arg.rnd.attempts[a] = 0
          /\ trace[u].arg.rnd.fallback = 1
    /\ meteors # <<>>
    /\ meteors[Len(meteors)].site = 1
    /\ meteors[Len(meteors)].hist = <<Telegraph>>
    /\ recentTargets = <<0, 1>>


\* C29: once a creature is marked dead, every later Creature.update leaves
\* its position unchanged (its walk, and with it its velocity, waypoint and
\* behaviour state, are frozen), every collision pass skips it, so no event
\* of a later CollisionSystem.update is about it, it is never alive again,
\* and it stays in the creature collection, whose size remains 3.
C29_DeadCreatureFrozen ==
    [][/\ Len(creatures') = creatureCount
       /\ \A j \in DOMAIN creatures :
            ~creatures[j].isAlive =>
               /\ creatures'[j] = creatures[j]
               /\ CallsOf(trace', "collision.update") # {} =>
                     \A e \in DOMAIN events' :
                        events'[e].type = "meteor_hit_creature" => events'[e].ci # j]_vars

\* A collision update has just evaluated a falling hazard whose body sphere
\* overlaps a dead creature and one that was alive: that one was hit, no
\* event is about the dead one.
C29_Witness ==
    /\ harness = "creatures"
    /\ CallsOf(trace, "collision.update") # {}
    /\ \E i \in DOMAIN meteors, j \in DOMAIN creatures, k \in DOMAIN creatures :
          /\ meteors[i].state = Falling
          /\ ~creatures[j].isAlive
          /\ sphereIntersectsSphere(MeteorBoundingSphere(meteors[i]),
                                    CreatureBoundingSphere(creatures[j]))
          /\ \A e \in DOMAIN events : events[e].ci # j
          /\ \E e \in DOMAIN events : /\ events[e].type = "meteor_hit_creature"
                                      /\ events[e].ci = k
                                      /\ events[e].mi = i

\* Creature.update has just been called with a waypoint on another slot for
\* a dead creature, which is still where it died.
C29_WitnessUpdate ==
    /\ harness = "creatures"
    /\ \E u \in CallsOf(trace, "Creature.update"), j \in DOMAIN creatures :
          /\ ~creatures[j].isAlive
          /\ j \in trace[u].arg.rnd.movers
          /\ trace[u].arg.rnd.waypoint # creatures[j].site
          /\ trace[u].arg.deltaTime > 0


\* C30: after InputManager.update, jumpPressed (punchPressed) is true exactly
\* when Space (KeyJ) is down at this update and was not down at the previous
\* update, whatever keydown, keyup, mousedown and mouseup events came between
\* the two updates; so a key held down continuously gives the flag on one
\* update only.
C30_PressedIsRisingEdge ==
    [][CallsOf(trace', "InputManager.update") # {} =>
          /\ inputState'.jumpPressed = ("Space" \in keys /\ "Space" \notin inputState.held)
          /\ inputState'.punchPressed = ("KeyJ" \in keys /\ "KeyJ" \notin inputState.held)]_vars

\* The same for the jump key alone, which no mouse listener writes.
C30_JumpPressedIsRisingEdge ==
    [][CallsOf(trace', "InputManager.update") # {} =>
          inputState'.jumpPressed = ("Space" \in keys /\ "Space" \notin inputState.held)]_vars

\* KeyJ was down at the last two updates and the second one reported
\* punchPressed again.
C30_WitnessRepeatedPunch ==
    /\ harness = "input"
    /\ CallsOf(trace, "InputManager.update") # {}
    /\ "KeyJ" \in inputState.held
    /\ inputState.punchPressed
    /\ inputState.jump
    /\ ~inputState.jumpPressed


\* The position, lifecycle state and timer of the hazards.
Motion(ms) == [i \in DOMAIN ms |-> <<ms[i].y, ms[i].state, ms[i].timer>>]

\* C31: setMeteorSpeed(s) changes no hazard's position, lifecycle state or
\* timer, and in every spawner update after it each hazard that is Falling
\* (whether it was a Telegraph or already Falling when the call was made, or
\* was spawned later) descends at the speed s: its height changes by s times
\* the update's delta-time.  (Stated for the updates that purge nothing, in
\* which the hazards keep their places in the list.)
C31_SpeedChangeAppliesNextUpdate ==
    [][/\ CallsOf(trace', "setMeteorSpeed") # {} => Motion(meteors') = Motion(meteors)
       /\ \A u \in CallsOf(trace', "MeteorSpawner.update") :
             purged' = <<>> =>
                \A i \in InState(meteors, Falling) :
                   meteors'[i].y = meteors[i].y - debugMeteorSpeed * trace'[u].arg.deltaTime]_vars

\* The part about the call itself: it changes no hazard's position,
\* lifecycle state or timer, and sets the speed later hazards are given.
C31_CallKeepsMotion ==
    [][\A c \in CallsOf(trace', "setMeteorSpeed") :
          /\ Motion(meteors') = Motion(meteors)
          /\ debugMeteorSpeed' = trace'[c].arg
          /\ \A i \in DOMAIN meteors' : meteors'[i].fallSpeed = trace'[c].arg]_vars

\* The part about Telegraphs: a hazard that starts to fall takes the speed
\* set last.
C31_NewFallTakesSpeed ==
    [][\A u \in CallsOf(trace', "MeteorSpawner.update") :
          purged' = <<>> =>
             \A i \in InState(meteors, Telegraph) :
                meteors'[i].state = Falling => meteors'[i].vy = -debugMeteorSpeed]_vars

\* A hazard that was already Falling at 12 m/s when setMeteorSpeed(6 m/s)
\* was called has gone through a further update and still falls at 12 m/s.
C31_WitnessOldSpeed ==
    /\ harness = "speed"
    /\ CallsOf(trace, "MeteorSpawner.update") # {}
    /\ debugMeteorSpeed = 300
    /\ \E i \in InState(meteors, Falling) :
          /\ meteors[i].fallSpeed = 300
          /\ meteors[i].vy = -defaultFallSpeed
          /\ meteors[i].y < spawnHeight


\* The calls of tr from k + 1 to k + Len(evs) handle the events evs in
\* order, and the call after them handles no event.
HandlesExactly(tr, k, evs) ==
    /\ k + Len(evs) <= Len(tr)
    /\ \A n \in 1..Len(evs) : /\ tr[k + n].op = "handleCollisionEvent"
                              /\ tr[k + n].arg = evs[n].type
    /\ k + Len(evs) < Len(tr) => tr[k + Len(evs) + 1].op # "handleCollisionEvent"

\* C32: collision events are per-frame facts.  The resolver's event list is
\* empty at the end of every frame, so every collision pass starts from an
\* empty list; the events a CollisionSystem.update produced are fetched
\* before the next pass and each is handled by the controller exactly once,
\* in order; and no event is handled that was not fetched.
C32_EventsAreTransient ==
    /\ [](events = <<>>)
    /\ [][/\ \A k \in CallsOf(trace', "getEvents") :
                HandlesExactly(trace', k, trace'[k].arg)
          /\ \A h \in CallsOf(trace', "handleCollisionEvent") :
                \E k \in CallsOf(trace', "getEvents") :
                   k < h /\ h <= k + Len(trace'[k].arg)
          /\ \A c \in CallsOf(trace', "collision.update") :
                \E k \in CallsOf(trace', "getEvents") :
                   /\ c < k
                   /\ \A d \in CallsOf(trace', "collision.update") : ~(c < d /\ d < k)]_vars

\* A frame in which a collision pass produced two events or more, which
\* were handled, and the list is empty again.
C32_Witness ==
    /\ harness = "game"
    /\ events = <<>>
    /\ \E k \in CallsOf(trace, "getEvents") :
          /\ Len(trace[k].arg) >= 2
          /\ HandlesExactly(trace, k, trace[k].arg)


\* The terminal check recorded at place i of tr saw a terminal condition.
IsTerminalCheck(tr, i) ==
    /\ tr[i].op = "checkGameConditions"
    /\ tr[i].cur = Play
    /\ tr[i].alive <= 0 \/ tr[i].timer <= 0

\* C33: a terminal check during Play that sees no creature alive, or else a
\* countdown of 0 or less, moves the phase to Result, and the outcome shown
\* on entering Result is a win exactly when that check saw a creature alive;
\* when it saw no creature alive and the countdown run out, it is a loss.
\* The Result screen is shown only after such a check.
C33_OutcomeFollowsTerminalCheck ==
    [][/\ \A i \in CallsOf(trace', "checkGameConditions") :
             IsTerminalCheck(trace', i) =>
                /\ currentState' = Result
                /\ \E j \in CallsOf(trace', "showResultUI") :
                      /\ j > i
                      /\ trace'[j].arg = IF trace'[i].alive > 0 THEN "won" ELSE "lost"
       /\ \A j \in CallsOf(trace', "showResultUI") :
             /\ \E i \in CallsOf(trace', "checkGameConditions") :
                   i < j /\ IsTerminalCheck(trace', i)
             /\ \A k \in CallsOf(trace', "showResultUI") : k = j]_vars

\* A terminal check saw no creature alive and the countdown run out, and the
\* Result screen reports a loss.
C33_Witness ==
    /\ currentState = Result
    /\ \E i \in CallsOf(trace, "checkGameConditions") :
          /\ trace[i].alive = 0
          /\ trace[i].timer <= 0
    /\ \E j \in CallsOf(trace, "showResultUI") : trace[j].arg = "lost"

\* The countdown ran out with a creature dead and a creature alive, and the
\* Result screen reports a win.
C33_WitnessWon ==
    /\ currentState = Result
    /\ \E i \in CallsOf(trace, "checkGameConditions") :
          /\ trace[i].alive \in 1..2
          /\ trace[i].timer <= 0
    /\ \E j \in CallsOf(trace, "showResultUI") : trace[j].arg = "won"


\* C34: at every terminal check during Play the session's alive-creature
\* count equals the number of creatures of the collection whose alive flag
\* is set.
C34_AliveCountUpToDate ==
    \A i \in CallsOf(trace, "checkGameConditions") :
        trace[i].cur = Play => trace[i].alive = trace[i].living

\* A terminal check in a frame in which a creature was hit: a creature is
\* dead, another alive, and the count agrees with the collection.
C34_Witness ==
    /\ harness = "game"
    /\ Handled("meteor_hit_creature") # {}
    /\ \E i \in CallsOf(trace, "checkGameConditions") :
          /\ trace[i].cur = Play
          /\ trace[i].living \in 1..2
          /\ trace[i].alive = trace[i].living
          /\ \E h \in Handled("meteor_hit_creature") : h < i


\* C35: a transition requested inside a phase's update handler takes effect
\* only after the handler has returned: between the call of the handler and
\* its return no onExit and no onEnter callback runs, and the phase at the
\* return is the phase whose handler was called.
C35_UpdateRunsToCompletion ==
    [][\A u \in CallsOf(trace', "handler.update"), r \in CallsOf(trace', "handler.return") :
          u < r =>
             /\ trace'[r].cur = trace'[u].arg
             /\ \A k \in DOMAIN trace' :
                   (u < k /\ k < r) => /\ trace'[k].op \notin {"onExit", "onEnter"}
                                       /\ trace'[k].cur = trace'[u].arg]_vars

\* The Title handler's update has returned with the phase already Play and
\* the Play handler's onEnter run in between.
C35_WitnessPreempted ==
    /\ harness = "game"
    /\ \E u \in CallsOf(trace, "handler.update"), r \in CallsOf(trace, "handler.return") :
          /\ u < r
          /\ trace[u].arg = Title
          /\ trace[r].cur = Play
          /\ \E k \in CallsOf(trace, "onEnter") : u < k /\ k < r /\ trace[k].arg = Play


\* C36: at every frame boundary the running flag is set exactly when the
\* phase is Play, and every entity update (whose first call is the player's
\* update) is made with the phase Play.
C36_RunningIffPlay ==
    /\ isGameRunning = (currentState = Play)
    /\ \A k \in CallsOf(trace, "player.update") : trace[k].cur = Play

\* A frame has left Play for Result: the flag is cleared, and no entity
\* update was made after the onExit callback of Play.
C36_Witness ==
    /\ harness = "game"
    /\ currentState = Result
    /\ ~isGameRunning
    /\ \E x \in CallsOf(trace, "onExit") :
          /\ trace[x].arg = Play
          /\ \E k \in CallsOf(trace, "player.update") : k < x
          /\ \A k \in CallsOf(trace, "player.update") : k < x


\* The spawner time at which a hazard was created: every update adds the
\* same delta-time to the spawner's gameTime and to the hazard's timer.
Birth(m) == gameTime - m.timer

\* The spawner times at which a hazard is created in the updates followed.
Births == {b \in 0..1199 : b % LiveCoarseStep = 0 \/ (b >= LiveFineTime /\ b % 12 = 0)}

\* C37: with updates of a delta-time above zero coming again and again and a
\* fall speed above zero, no hazard stays active for ever: every hazard
\* spawned is eventually removed from the spawner's active set, having left
\* Telegraph for Falling and reached Destroyed or Exploded.
C37_EveryHazardIsRemoved ==
    \A b \in Births :
        (\E i \in DOMAIN meteors : Birth(meteors[i]) = b)
        ~> /\ \A i \in DOMAIN meteors : Birth(meteors[i]) # b
           /\ \E k \in DOMAIN purged :
                 /\ Birth(purged[k].m) = b
                 /\ purged[k].m.state \in {Destroyed, Exploded}
                 /\ purged[k].m.hist[2] = Falling

\* Every active hazard was born at one of the times Births lists.
C37_BirthsCovered == \A i \in DOMAIN meteors : Birth(meteors[i]) \in Births

\* A hazard spawned in the last seconds of the last window has just been
\* removed after its explosion.
C37_Witness ==
    /\ harness = "lives"
    /\ gameTime > 1200
    /\ \E k \in DOMAIN purged :
          /\ Birth(purged[k].m) >= LiveFineTime
          /\ purged[k].m.hist = <<Telegraph, Falling, Exploded>>

\* A destroyed hazard has just been removed.
C37_WitnessDestroyed ==
    /\ harness = "lives"
    /\ \E k \in DOMAIN purged : purged[k].m.hist = <<Telegraph, Falling, Destroyed>>


\* The meteor_hit_creature events of an event list that name creature j.
HitEventsOf(evs, j) ==
    {e \in DOMAIN evs : evs[e].type = "meteor_hit_creature" /\ evs[e].ci = j}

\* C38: each creature gives rise to at most one meteor_hit_creature event
\* from its construction on, whether one or several hazards overlap it in a
\* collision pass and whichever of the two passes finds it: the creature
\* that has its event is dead, no event list names a creature twice, and
\* the events about the three creatures are never more than 3.
C38_OneHitPerCreature ==
    /\ \A j \in DOMAIN creatures :
          /\ creatures[j].hits <= 1
          /\ creatures[j].hits = 1 => ~creatures[j].isAlive
          /\ Cardinality(HitEventsOf(events, j)) <= creatures[j].hits
    /\ creatures[1].hits + creatures[2].hits + creatures[3].hits <= creatureCount

\* A collision update has just found two falling hazards overlapping the
\* same creature: the first one hit it, and it has exactly one event.
C38_Witness ==
    /\ harness = "creatures"
    /\ CallsOf(trace, "collision.update") # {}
    /\ \E i \in DOMAIN meteors, i2 \in DOMAIN meteors, j \in DOMAIN creatures :
          /\ i < i2
          /\ meteors[i].state = Falling
          /\ meteors[i2].state = Falling
          /\ sphereIntersectsSphere(MeteorBoundingSphere(meteors[i]),
                                    CreatureBoundingSphere(creatures[j]))
          /\ sphereIntersectsSphere(MeteorBoundingSphere(meteors[i2]),
                                    CreatureBoundingSphere(creatures[j]))
          /\ creatures[j].hits = 1
          /\ \E e \in HitEventsOf(events, j) : events[e].mi = i
          /\ Cardinality(HitEventsOf(events, j)) = 1


\* C39: a firing of the boot callback while the phase is Title, Play or
\* Result changes nothing: the phase stays and no onExit or onEnter
\* callback runs.
C39_LateFiringChangesNothing ==
    [][(CallsOf(trace', "timer") # {} /\ currentState \in {Title, Play, Result})
          => /\ currentState' = currentState
             /\ CallsOf(trace', "onExit") = {}
             /\ CallsOf(trace', "onEnter") = {}]_vars

\* C39, the part that holds: once Game.start has put the machine in Boot with
\* the timeout pending, the phase becomes Title, whatever frames and key
\* events come in between.
C39_StartLeadsToTitle == (currentState = Boot /\ bootTimer) ~> (currentState = Title)

\* C39, the part that holds: a firing of the boot callback in Title or Play
\* is rejected by canTransitionTo and changes no field of the program.
C39_FiringRejectedInTitleAndPlay ==
    [][(CallsOf(trace', "timer") # {} /\ currentState \in {Title, Play})
          => /\ [St EXCEPT !.bootTimer = FALSE, !.trace = <<>>]
                  = [St EXCEPT !.bootTimer = FALSE, !.trace = <<>>]'
             /\ CallsOf(trace', "onExit") = {}
             /\ CallsOf(trace', "onEnter") = {}]_vars

\* The boot callback has just fired in Result and the phase is Title.
C39_WitnessResultToTitle ==
    /\ harness = "game"
    /\ currentState = Title
    /\ \E t \in CallsOf(trace, "timer") : trace[t].cur = Result

\* The boot callback has just fired in Play and the phase is still Play.
C39_WitnessRejectedInPlay ==
    /\ harness = "game"
    /\ currentState = Play
    /\ \E t \in CallsOf(trace, "timer") : trace[t].cur = Play

====
